---------------------------- MODULE Spec2Model ----------------------------
(***************************************************************************)
(* A model of the UPSC question engine (engine.py): the retry wrapper      *)
(* around the generation service, generate_questions, evaluate_questions,  *)
(* analyze_structure and generate_mock_test.                               *)
(*                                                                         *)
(* Texts are sequences of one-character strings, so that Python's          *)
(* substring tests ("429" in str(e), "limit" in str(e).lower(), ...)       *)
(* are computed on the characters and not assumed.                         *)
(***************************************************************************)
EXTENDS Integers, Sequences, FiniteSets, TLC

\* ------------------------------------------------------------------------
\* Texts of the program and of its environment
\* ------------------------------------------------------------------------

\* the text returned when no credential is set (engine.py:189)
NoKeyText ==
  <<"E","r","r","o","r",":"," ","A","P","I"," ","K","e","y"," ","n","o","t",
    " ","c","o","n","f","i","g","u","r","e","d",".">>

\* prefix of the model-initialisation error (engine.py:194, 306)
InitErrorPrefix ==
  <<"E","r","r","o","r"," ","i","n","i","t","i","a","l","i","z","i","n","g",
    " ","m","o","d","e","l",":"," ">>

\* message of the exception raised once the retries are used up (engine.py:147)
RetriesExhaustedText ==
  <<"R","a","t","e"," ","l","i","m","i","t"," ","e","x","c","e","e","d","e",
    "d","."," ","T","h","e"," ","m","o","d","e","l"," ","i","s"," ","t","o",
    "o"," ","b","u","s","y","."," ","P","l","e","a","s","e"," ","w","a","i",
    "t"," ","2"," ","m","i","n","u","t","e","s",".">>

\* the 'service busy' error text (engine.py:241); a non-ASCII code point is one element
ServiceBusyText ==
  <<"U+26A0","U+FE0F"," ","*","*","E","r","r","o","r",":"," ","R","a","t",
    "e"," ","l","i","m","i","t"," ","e","x","c","e","e","d","e","d"," ","(",
    "4","2","9",")",".","*","*","\n","\n","T","h","e"," ","A","I"," ","m",
    "o","d","e","l"," ","i","s"," ","c","u","r","r","e","n","t","l","y"," ",
    "b","u","s","y","."," ","P","l","e","a","s","e"," ","t","r","y",":",
    "\n","1","."," ","S","w","i","t","c","h","i","n","g"," ","t","o"," ",
    "a"," ","d","i","f","f","e","r","e","n","t"," ","m","o","d","e","l"," ",
    "i","n"," ","t","h","e"," ","s","i","d","e","b","a","r",".","\n","2",
    "."," ","W","a","i","t","i","n","g"," ","f","o","r"," ","a"," ","m","i",
    "n","u","t","e",".">>

\* prefix of the generation error (engine.py:242)
GenerationErrorPrefix ==
  <<"E","r","r","o","r"," ","g","e","n","e","r","a","t","i","n","g"," ","c",
    "o","n","t","e","n","t",":"," ">>

\* error text of evaluate_questions / analyze_structure without credential (engine.py:301, 394)
NoKeyDictText ==
  <<"A","P","I"," ","K","e","y"," ","n","o","t"," ","c","o","n","f","i","g",
    "u","r","e","d",".">>

\* error text of analyze_structure when no attempt parsed (engine.py:454)
AnalyzeFailedText ==
  <<"F","a","i","l","e","d"," ","t","o"," ","a","n","a","l","y","z","e"," ",
    "s","t","r","u","c","t","u","r","e"," ","a","f","t","e","r"," ","m","u",
    "l","t","i","p","l","e"," ","r","e","t","r","i","e","s"," ","(","R","a",
    "t","e"," ","L","i","m","i","t"," ","4","2","9",")","."," ","T","r","y",
    " ","a","g","a","i","n"," ","l","a","t","e","r",".">>

\* prefix of the mock-test failure text (engine.py:292)
MockFailedPrefix ==
  <<"F","a","i","l","e","d"," ","t","o"," ","g","e","n","e","r","a","t","e",
    " ","a","n","y"," ","q","u","e","s","t","i","o","n","s",".","\n","D",
    "e","t","a","i","l","s",":","\n">>

Needle429 ==
  <<"4","2","9">>

NeedleResourceExhausted ==
  <<"r","e","s","o","u","r","c","e"," ","e","x","h","a","u","s","t","e","d">>

NeedleLimit ==
  <<"l","i","m","i","t">>

NeedleRateLimit ==
  <<"R","a","t","e"," ","l","i","m","i","t">>

NeedleQuestions ==
  <<"q","u","e","s","t","i","o","n","s">>

NeedleError ==
  <<"e","r","r","o","r">>

\* provider error carrying the 429 status
Msg429 ==
  <<"4","2","9"," ","T","o","o"," ","M","a","n","y"," ","R","e","q","u","e",
    "s","t","s">>

\* provider error carrying the phrase in mixed case
MsgExhausted ==
  <<"R","e","s","o","u","r","c","e"," ","E","x","h","a","u","s","t","e","d",
    ":"," ","q","u","o","t","a">>

\* provider error that is no rate-limit signal
MsgInternal ==
  <<"5","0","0"," ","I","n","t","e","r","n","a","l"," ","f","a","i","l","u",
    "r","e">>

\* provider error that is no rate-limit signal but mentions a limit
MsgTokenLimit ==
  <<"4","0","0"," ","T","o","k","e","n"," ","l","i","m","i","t"," ","e","x",
    "c","e","e","d","e","d">>

\* json.loads message for text that is no JSON at all
MsgExpectingValue ==
  <<"E","x","p","e","c","t","i","n","g"," ","v","a","l","u","e",":"," ","l",
    "i","n","e"," ","1"," ","c","o","l","u","m","n"," ","1"," ","(","c","h",
    "a","r"," ","0",")">>

\* json.loads message for a missing comma
MsgExpectingDelimiter ==
  <<"E","x","p","e","c","t","i","n","g"," ","'",",","'"," ","d","e","l","i",
    "m","i","t","e","r",":"," ","l","i","n","e"," ","1"," ","c","o","l","u",
    "m","n"," ","9"," ","(","c","h","a","r"," ","8",")">>

\* json.loads message for a comma missing at character 429 of a longer
\* document
MsgExpectingDelimiterAt429 ==
  <<"E","x","p","e","c","t","i","n","g"," ","'",",","'"," ","d","e","l","i",
    "m","i","t","e","r",":"," ","l","i","n","e"," ","9"," ","c","o","l","u",
    "m","n"," ","3"," ","(","c","h","a","r"," ","4","2","9",")">>

\* message of a failing genai.GenerativeModel(model_name)
MsgBadModel ==
  <<"4","0","4"," ","m","o","d","e","l"," ","n","o","t"," ","f","o","u","n",
    "d">>

\* message of the TypeError of indexing a str with a key
MsgTypeError ==
  <<"s","t","r","i","n","g"," ","i","n","d","i","c","e","s"," ","m","u","s",
    "t"," ","b","e"," ","i","n","t","e","g","e","r","s">>

ColonSpace ==
  <<":"," ">>

NewLine ==
  <<"\n">>

subjects ==
  <<
    <<"A","n","c","i","e","n","t"," ","&"," ","M","e","d","i","e","v","a","l",
    " ","H","i","s","t","o","r","y">>,
    <<"M","o","d","e","r","n"," ","I","n","d","i","a","n"," ","H","i","s","t",
    "o","r","y">>,
    <<"I","n","d","i","a","n"," ","P","o","l","i","t","y"," ","&"," ","G","o",
    "v","e","r","n","a","n","c","e">>,
    <<"I","n","d","i","a","n"," ","E","c","o","n","o","m","y">>,
    <<"G","e","o","g","r","a","p","h","y"," ","(","P","h","y","s","i","c","a",
    "l"," ","&"," ","I","n","d","i","a","n",")">>,
    <<"E","n","v","i","r","o","n","m","e","n","t"," ","&"," ","E","c","o","l",
    "o","g","y">>,
    <<"S","c","i","e","n","c","e"," ","&"," ","T","e","c","h","n","o","l","o",
    "g","y">>,
    <<"C","u","r","r","e","n","t"," ","E","v","e","n","t","s"," ","(","L","a",
    "s","t"," ","1","2"," ","M","o","n","t","h","s",")">>
  >>
\* ------------------------------------------------------------------------
\* Python string operations
\* ------------------------------------------------------------------------

\* the letters str.lower() changes
ToLower ==
  [A |-> "a", B |-> "b", C |-> "c", D |-> "d", E |-> "e", F |-> "f",
   G |-> "g", H |-> "h", I |-> "i", J |-> "j", K |-> "k", L |-> "l",
   M |-> "m", N |-> "n", O |-> "o", P |-> "p", Q |-> "q", R |-> "r",
   S |-> "s", T |-> "t", U |-> "u", V |-> "v", W |-> "w", X |-> "x",
   Y |-> "y", Z |-> "z"]

\* str.lower() on one character
LowerChar(c) == IF c \in DOMAIN ToLower THEN ToLower[c] ELSE c

\* str.lower()
Lower(s) == [k \in 1..Len(s) |-> LowerChar(s[k])]

\* needle in hay, for two strings
Contains(needle, hay) ==
  \E k \in 1..(Len(hay) - Len(needle) + 1) :
    \A j \in 1..Len(needle) : hay[k + j - 1] = needle[j]

\* sep.join(parts)
RECURSIVE Join(_, _)
Join(sep, parts) ==
  IF parts = <<>> THEN <<>>
  ELSE IF Len(parts) = 1 THEN parts[1]
  ELSE parts[1] \o sep \o Join(sep, Tail(parts))

Min(a, b) == IF a < b THEN a ELSE b

Max(a, b) == IF a > b THEN a ELSE b

RECURSIVE Pow2(_)
Pow2(n) == IF n = 0 THEN 1 ELSE 2 * Pow2(n - 1)

\* ------------------------------------------------------------------------
\* Python values
\* ------------------------------------------------------------------------

PyStr(s) == [type |-> "str", val |-> s]

PyDict(d) == [type |-> "dict", val |-> d]

PyNone == [type |-> "none", val |-> <<>>]

\* an exception that leaves the operation uncaught
PyRaise(msg) == [type |-> "raise", val |-> msg]

ErrorDict(s) == PyDict([error |-> s])

\* Python's `key in v`: a substring test on a str, a key test on a dict
In(key, keyText, v) ==
  CASE v.type = "str"  -> Contains(keyText, v.val)
    [] v.type = "dict" -> key \in DOMAIN v.val
    [] OTHER           -> FALSE

\* ------------------------------------------------------------------------
\* Bounds and program constants
\* ------------------------------------------------------------------------

\* random.uniform(0, 1) is drawn from JitterSteps values k/JitterSteps in
\* [0, 1); all sleep times are counted in units of 1/JitterSteps seconds
JitterSteps == 2

\* largest num_questions passed to generate_questions directly
MaxQuestions == 2

\* the num_questions passed to generate_mock_test: fewer questions than
\* there are subjects, and a length the mock-test page offers
MockTotals == {5, 20}

max_retries == 5

base_delay == 5

MaxSleep == 60

MockPause == 5

AnalyzeAttempts == 3

Jitter == 0..(JitterSteps - 1)

ModelNames == {"gemini-2.0-flash", "no-such-model"}

\* genai.GenerativeModel(m) raises for a model name it rejects
InitRaises(m) == m = "no-such-model"

\* ------------------------------------------------------------------------
\* The generation service (environment)
\* ------------------------------------------------------------------------

\* messages of the exceptions model.generate_content can raise
ServiceErrors == {Msg429, MsgExhausted, MsgInternal, MsgTokenLimit}

\* A response text is a sequence of tokens: the fence markers FENCE_JSON (three
\* backquotes and the word json) and FENCE (three backquotes), and chunks of text: "doc" a JSON document of the requested shape,
\* "prose" text that is no JSON, "nocomma" a JSON document lacking a comma,
\* "nocomma429" a longer one lacking a comma at character 429.
Chunks == {"doc", "prose", "nocomma", "nocomma429"}

ResponseTexts ==
  {<<c>> : c \in Chunks}
    \cup {<<"FENCE_JSON", c, "FENCE">> : c \in Chunks}
    \cup {<<"FENCE", c, "FENCE">> : c \in Chunks}

IsFence(tok) == tok \in {"FENCE_JSON", "FENCE"}

\* the tokens before the first fence marker: s.split(FENCE)[0]
\* (FENCE_JSON contains FENCE, so it ends the piece as well)
RECURSIVE UpToFence(_)
UpToFence(s) ==
  IF s = <<>> \/ IsFence(Head(s)) THEN <<>>
  ELSE <<Head(s)>> \o UpToFence(Tail(s))

\* the tokens after the first occurrence of marker tok
RECURSIVE AfterFirst(_, _)
AfterFirst(s, tok) ==
  IF s = <<>> THEN <<>>
  ELSE IF Head(s) = tok THEN Tail(s)
  ELSE AfterFirst(Tail(s), tok)

HasToken(s, tok) == \E k \in 1..Len(s) : s[k] = tok

\* the clean-up of markdown code blocks
StripFences(text) ==
  IF HasToken(text, "FENCE_JSON")
    THEN UpToFence(AfterFirst(text, "FENCE_JSON"))
  ELSE IF HasToken(text, "FENCE")
    THEN UpToFence(AfterFirst(text, "FENCE"))
  ELSE text

\* json.loads(text): the parsed document, or the message of the
\* JSONDecodeError; doc is the value the chunk "doc" denotes
JsonLoads(text, doc) ==
  IF Len(text) = 1 /\ text[1] = "doc"
    THEN [ok |-> TRUE, value |-> doc, msg |-> <<>>]
  ELSE IF Len(text) = 1 /\ text[1] = "nocomma"
    THEN [ok |-> FALSE, value |-> PyNone, msg |-> MsgExpectingDelimiter]
  ELSE IF Len(text) = 1 /\ text[1] = "nocomma429"
    THEN [ok |-> FALSE, value |-> PyNone, msg |-> MsgExpectingDelimiterAt429]
  ELSE [ok |-> FALSE, value |-> PyNone, msg |-> MsgExpectingValue]

AuditDoc == PyDict([overall_score |-> 8, verdict |-> "Approved"])

StructureDoc == PyDict([subject |-> "Indian Polity", chapters |-> <<>>])

\* ------------------------------------------------------------------------
\* State
\* ------------------------------------------------------------------------

VARIABLES
  api_key,        \* ExamEngine.api_key: TRUE when a credential is set
  model_name,     \* model_name argument of the running operation
  op,             \* the public operation called last
  pc,             \* where that operation stands
  attempt,        \* loop variable of the retry loop in progress
  sleep_time,     \* the delay computed last (units of 1/JitterSteps s)
  calls,          \* service invocations made by the current call
  sleeps,         \* delays slept by the current call
  hits,           \* invocations of the current call that met a rate limit
  svc_out,        \* how the last invocation of the finished call ended
  retry_out,      \* how _call_with_retry ended: return value or exception
  result,         \* value returned by the operation
  count,          \* num_questions argument of generate_questions
  num_questions,  \* num_questions argument of generate_mock_test
  i,              \* generate_mock_test: index of the current subject
  all_questions,  \* generate_mock_test: questions collected
  errors,         \* generate_mock_test: error log
  requested,      \* generate_mock_test: counts asked of generate_questions
  mock_sleeps,    \* generate_mock_test: 5 s pauses slept
  mock_slept,     \* generate_mock_test: seconds slept in those pauses
  model_idx,      \* analyze_structure: index into models_to_try
  dir_exists,     \* whether LIBRARY_DIR exists
  disk,           \* the files of LIBRARY_DIR: name -> content version
  index_file,     \* INDEX_FILE: whether it exists, and the index it holds
  index,          \* Librarian.index["files"]: name -> entry
  lib_pc,         \* where scan_library stands
  files,          \* scan_library: the PDF names listed
  pos,            \* scan_library: files handled so far
  logs,           \* scan_library: the log lines collected
  structure,      \* scan_library: what analyze_structure returned last
  analyzed,       \* analyze_structure calls of the current scan, per file
  inferred,       \* per entry: version and structure of the inference that
                  \* succeeded last for its file
  prev_scan,      \* whether the scan began right after another scan
                  \* returned, and whether that one logged an error
  query,          \* the last library query and what it returned
  svc_key,        \* the correct_option the service writes into its questions
  history_file,   \* HISTORY_FILE: its condition and the records it holds
  uuid_count,     \* uuid4 values drawn so far
  clock,          \* datetime.now(), an index into Minutes
  saving,         \* per session: a save_quiz between its read and its write
  hist_out,       \* the history operation finished last and its outcome
  saved,          \* the records written by save_quiz, by id, since the
                  \* file was last damaged from outside
  quiz_data,      \* st.session_state.quiz_data
  quiz_active,    \* st.session_state.quiz_active
  quiz_submitted, \* st.session_state.quiz_submitted
  user_answers,   \* st.session_state.user_answers
  current_topic,  \* st.session_state.current_topic
  navigation,     \* st.session_state.navigation
  answered,       \* the questions the stored user_answers were given to
  attempts,       \* the attempts the submit handler passed to save_quiz
  shown           \* the score and maximum the results view rendered last

engineVars ==
  <<api_key, model_name, op, pc, attempt, sleep_time, calls, sleeps, hits,
    svc_out, retry_out, result, count, num_questions, i, all_questions, errors,
    requested, mock_sleeps, mock_slept, model_idx>>

libVars ==
  <<dir_exists, disk, index_file, index, lib_pc, files, pos, logs, structure,
    analyzed, inferred, prev_scan, query>>

histVars == <<history_file, uuid_count, clock, saving, hist_out, saved>>

appVars ==
  <<quiz_data, quiz_active, quiz_submitted, user_answers, current_topic,
    navigation, answered, attempts, shown>>

vars == <<engineVars, libVars, svc_key, histVars, appVars>>

\* what the engine's operations leave alone, and what the librarian's do
outsideEngine == <<libVars, svc_key, histVars, appVars>>

outsideLibrarian == <<engineVars, svc_key, histVars, appVars>>

retryVars == <<attempt, sleep_time, calls, sleeps, hits, svc_out, retry_out>>

mockVars ==
  <<num_questions, i, all_questions, errors, requested, mock_sleeps,
    mock_slept>>

\* the keys of the options mapping the prompt asks for, and the values
\* the service can put into correct_option: one of the keys, or a fifth
\* letter
OptionKeys == {"A", "B", "C", "D"}

AnswerKeys == {"A", "E"}

\* the questions the document holds that the service returns for a request
\* of n questions on topic t
Questions(n, t) ==
  [k \in 1..n |-> [topic |-> t, options |-> OptionKeys,
                   correct_option |-> svc_key]]

QuestionsDoc(n, t) == PyDict([questions |-> Questions(n, t)])

NoOutcome == [kind |-> "none", text |-> <<>>, msg |-> <<>>]

Returned(text) == [kind |-> "return", text |-> text, msg |-> <<>>]

Raised(msg) == [kind |-> "raise", text |-> <<>>, msg |-> msg]

Idle == pc \in {"idle", "done"}

\* the names a library file can have, and the versions of its content
FileA == <<"a", ".", "p", "d", "f">>

FileB == <<"B", ".", "P", "D", "F">>

FileNotes == <<"n", ".", "t", "x", "t">>

Filenames == {FileA, FileB, FileNotes}

Versions == {"v1", "v2"}

\* a dict without keys
EmptyDict == [f \in {} |-> PyNone]

NoQuery == [op |-> "none"]

\* the browser sessions that use the application, each with a QuizHistory
\* of its own on the one HISTORY_FILE
Sessions == {"s1", "s2"}

\* a session that is not inside save_quiz
NoSave == [pc |-> "idle"]

\* ExamEngine.__init__: the credential is given, found in the
\* environment, or missing; Librarian.__init__ on a fresh installation:
\* no library directory, no index file; QuizHistory.__init__ on a fresh
\* installation: _ensure_file writes an empty list; a session that has
\* no key in st.session_state yet
Init ==
  /\ api_key \in BOOLEAN
  /\ model_name = "gemini-2.0-flash"
  /\ op = "none"
  /\ pc = "idle"
  /\ attempt = 0
  /\ sleep_time = 0
  /\ calls = 0
  /\ sleeps = 0
  /\ hits = 0
  /\ svc_out = NoOutcome
  /\ retry_out = NoOutcome
  /\ result = PyNone
  /\ count = 0
  /\ num_questions = 0
  /\ i = 0
  /\ all_questions = <<>>
  /\ errors = <<>>
  /\ requested = <<>>
  /\ mock_sleeps = 0
  /\ mock_slept = 0
  /\ model_idx = 0
  /\ dir_exists = FALSE
  /\ disk = EmptyDict
  /\ index_file = [exists |-> FALSE, files |-> EmptyDict]
  /\ index = EmptyDict
  /\ lib_pc = "idle"
  /\ files = <<>>
  /\ pos = 0
  /\ logs = <<>>
  /\ structure = PyNone
  /\ analyzed = [f \in Filenames |-> 0]
  /\ inferred = EmptyDict
  /\ prev_scan = "none"
  /\ query = NoQuery
  /\ svc_key = "A"
  /\ history_file = [state |-> "json", records |-> <<>>]
  /\ uuid_count = 0
  /\ clock = 1
  /\ saving = [p \in Sessions |-> NoSave]
  /\ hist_out = NoQuery
  /\ saved = EmptyDict
  /\ quiz_data = <<>>
  /\ quiz_active = FALSE
  /\ quiz_submitted = FALSE
  /\ user_answers = EmptyDict
  /\ current_topic = PyNone
  /\ navigation = "Home"
  /\ answered = <<>>
  /\ attempts = <<>>
  /\ shown = NoQuery

\* ------------------------------------------------------------------------
\* _call_with_retry
\* ------------------------------------------------------------------------

\* IsRateLimitSignal taking any mention of a limit for a rate limit
IsRateLimitSignalAnyLimit(msg) ==
  \/ Contains(Needle429, Lower(msg))
  \/ Contains(NeedleResourceExhausted, Lower(msg))
  \/ Contains(NeedleLimit, Lower(msg))

\* the rate-limit test of the wrapper
IsRateLimitSignal(msg) ==
  \/ Contains(Needle429, Lower(msg))
  \/ Contains(NeedleResourceExhausted, Lower(msg))

\* CanRetry with the bound off by one
CanRetryOffByOne(a) == a <= max_retries

\* the test that lets the loop go round again after attempt a
CanRetry(a) == a < max_retries

\* every message an except clause of the engine can meet
ErrorMessages ==
  ServiceErrors
    \cup {RetriesExhaustedText, MsgExpectingValue, MsgExpectingDelimiter,
          MsgExpectingDelimiterAt429}

\* the messages the wrapper retries on (the test, evaluated once)
RateLimitSignals == {msg \in ErrorMessages : IsRateLimitSignal(msg)}

\* SleepTime without the cap
SleepTimeUncapped(a, j) == base_delay * Pow2(a) * JitterSteps + j

\* the delay before the retry that follows attempt a, for a jitter of
\* j/JitterSteps seconds
SleepTime(a, j) ==
  Min(base_delay * Pow2(a) * JitterSteps + j, MaxSleep * JitterSteps)

\* ------------------------------------------------------------------------
\* generate_questions
\* ------------------------------------------------------------------------

\* GenPrologue without the test of the credential
GenPrologueNoKeyCheck(key, m) ==
  IF InitRaises(m) THEN PyStr(InitErrorPrefix \o MsgBadModel)
  ELSE PyNone

\* the checks before the service is called: the value returned at once,
\* or PyNone when the call goes ahead
GenPrologue(key, m) ==
  IF ~key THEN PyStr(NoKeyText)
  ELSE IF InitRaises(m) THEN PyStr(InitErrorPrefix \o MsgBadModel)
  ELSE PyNone

\* GenExcept looking for the status code only
GenExcept429Only(msg) ==
  IF Contains(Needle429, msg)
    THEN ErrorDict(ServiceBusyText)
    ELSE ErrorDict(GenerationErrorPrefix \o msg)

\* the except clause of generate_questions
GenExcept(msg) ==
  IF Contains(Needle429, msg) \/ Contains(NeedleLimit, Lower(msg))
    THEN ErrorDict(ServiceBusyText)
    ELSE ErrorDict(GenerationErrorPrefix \o msg)

\* the except clause on every message (evaluated once)
GenExceptOn == [msg \in ErrorMessages |-> GenExcept(msg)]

\* what generate_questions returns once _call_with_retry ended with out
GenFinish(out, n, t) ==
  IF out.kind = "raise" THEN GenExceptOn[out.msg]
  ELSE LET parsed == JsonLoads(StripFences(out.text), QuestionsDoc(n, t))
       IN  IF parsed.ok THEN parsed.value ELSE GenExceptOn[parsed.msg]

\* ------------------------------------------------------------------------
\* evaluate_questions
\* ------------------------------------------------------------------------

EvalPrologue(key, m) ==
  IF ~key THEN ErrorDict(NoKeyDictText)
  ELSE IF InitRaises(m) THEN ErrorDict(InitErrorPrefix \o MsgBadModel)
  ELSE PyNone

EvalFinish(out) ==
  IF out.kind = "raise" THEN ErrorDict(out.msg)
  ELSE LET parsed == JsonLoads(out.text, AuditDoc)
       IN  IF parsed.ok THEN parsed.value ELSE ErrorDict(parsed.msg)

\* ------------------------------------------------------------------------
\* generate_mock_test: the distribution of the questions
\* ------------------------------------------------------------------------

q_per_subject(n) == Max(1, n \div Len(subjects))

remaining(n) == n % Len(subjects)

\* the count asked for subject k (k = 0 for the first subject)
SubjectCount(n, k) == q_per_subject(n) + (IF k < remaining(n) THEN 1 ELSE 0)

\* the locals of a generate_questions call that has not called the service
FreshCall ==
  [attempt |-> 0, sleep_time |-> 0, calls |-> 0, sleeps |-> 0, hits |-> 0,
   svc_out |-> NoOutcome, retry_out |-> NoOutcome]

SetCall(c) ==
  /\ attempt' = c.attempt
  /\ sleep_time' = c.sleep_time
  /\ calls' = c.calls
  /\ sleeps' = c.sleeps
  /\ hits' = c.hits
  /\ svc_out' = c.svc_out
  /\ retry_out' = c.retry_out

\* IsRateLimitError looking for the words in lower case
IsRateLimitErrorLowerCase(text) == Contains(Lower(NeedleRateLimit), text)

\* the test that stops the subject loop
IsRateLimitError(text) == Contains(NeedleRateLimit, text)

\* the error texts of generate_questions that stop the loop (the test,
\* evaluated once)
RateLimitErrors ==
  {text \in {GenExceptOn[msg].val.error : msg \in ErrorMessages} :
     IsRateLimitError(text)}

\* generate_mock_test returns v from inside the loop; the locals of the
\* generate_questions call that returned are gone
MockEnds(v) ==
  /\ result' = v
  /\ pc' = "done"
  /\ SetCall(FreshCall)

\* generate_mock_test goes on to the pause after the loop body
MockGoesOn ==
  /\ pc' = "mock_sleep"
  /\ SetCall(FreshCall)
  /\ UNCHANGED result

\* the body of the subject loop after generate_questions returned r
\* (indexing a str with a key raises TypeError, which nothing catches)
MockHandle(r) ==
  IF In("questions", NeedleQuestions, r) THEN
    IF r.type = "str"
      THEN /\ MockEnds(PyRaise(MsgTypeError))
           /\ UNCHANGED <<all_questions, errors>>
      ELSE /\ all_questions' = all_questions \o r.val.questions
           /\ MockGoesOn
           /\ UNCHANGED errors
  ELSE IF In("error", NeedleError, r) THEN
    IF r.type = "str"
      THEN /\ MockEnds(PyRaise(MsgTypeError))
           /\ UNCHANGED <<all_questions, errors>>
      ELSE /\ errors' = Append(errors, subjects[i + 1] \o ColonSpace \o r.val.error)
           /\ IF r.val.error \in RateLimitErrors
                THEN MockEnds(r)
                ELSE MockGoesOn
           /\ UNCHANGED all_questions
  ELSE /\ MockGoesOn
       /\ UNCHANGED <<all_questions, errors>>

\* ------------------------------------------------------------------------
\* Actions
\* ------------------------------------------------------------------------

\* set_api_key(k), between two operations
SetApiKey(k) ==
  /\ Idle
  /\ api_key' = k
  /\ UNCHANGED <<model_name, op, pc, result, count, model_idx>>
  /\ UNCHANGED retryVars
  /\ UNCHANGED mockVars
  /\ UNCHANGED outsideEngine

ResetMock ==
  /\ num_questions' = 0
  /\ i' = 0
  /\ all_questions' = <<>>
  /\ errors' = <<>>
  /\ requested' = <<>>
  /\ mock_sleeps' = 0
  /\ mock_slept' = 0

\* generate_questions(num_questions = n, model_name = m) up to the first
\* service call
StartGenerate(n, m) ==
  /\ Idle
  /\ op' = "generate_questions"
  /\ model_name' = m
  /\ count' = n
  /\ SetCall(FreshCall)
  /\ ResetMock
  /\ model_idx' = 0
  /\ LET r == GenPrologue(api_key, m)
     IN  IF r.type # "none"
           THEN result' = r /\ pc' = "done"
           ELSE result' = PyNone /\ pc' = "retry_call"
  /\ UNCHANGED api_key
  /\ UNCHANGED outsideEngine

\* evaluate_questions(model_name = m) up to the first service call
StartEvaluate(m) ==
  /\ Idle
  /\ op' = "evaluate_questions"
  /\ model_name' = m
  /\ count' = 0
  /\ SetCall(FreshCall)
  /\ ResetMock
  /\ model_idx' = 0
  /\ LET r == EvalPrologue(api_key, m)
     IN  IF r.type # "none"
           THEN result' = r /\ pc' = "done"
           ELSE result' = PyNone /\ pc' = "retry_call"
  /\ UNCHANGED api_key
  /\ UNCHANGED outsideEngine

\* the topic of the running generate_questions call: 0 for a direct call,
\* the number of the subject in a mock test
Topic == IF op = "generate_mock_test" THEN i + 1 ELSE 0

\* _call_with_retry ends with out after the service answered with svc
\* (h rate limits met), and its caller goes on to its own end
WrapperEnds(out, svc, h) ==
  LET c == [attempt |-> attempt, sleep_time |-> sleep_time,
            calls |-> calls + 1, sleeps |-> sleeps, hits |-> h,
            svc_out |-> svc, retry_out |-> out]
  IN  IF op = "evaluate_questions"
        THEN /\ result' = EvalFinish(out)
             /\ pc' = "done"
             /\ SetCall(c)
             /\ UNCHANGED <<all_questions, errors>>
      ELSE IF op = "generate_questions"
        THEN /\ result' = GenFinish(out, count, Topic)
             /\ pc' = "done"
             /\ SetCall(c)
             /\ UNCHANGED <<all_questions, errors>>
      ELSE MockHandle(GenFinish(out, count, Topic))

\* one pass of the retry loop: func is invoked and returns or raises
RetryCall ==
  /\ pc = "retry_call"
  /\ \/ \E text \in ResponseTexts :
          WrapperEnds(Returned(text), Returned(text), hits)
     \/ \E msg \in ServiceErrors, j \in Jitter :
          IF msg \in RateLimitSignals
            THEN IF CanRetry(attempt)
                   THEN /\ sleep_time' = SleepTime(attempt, j)
                        /\ pc' = "retry_sleep"
                        /\ calls' = calls + 1
                        /\ hits' = hits + 1
                        /\ UNCHANGED <<attempt, sleeps, svc_out, retry_out,
                                       result, all_questions, errors>>
                   ELSE WrapperEnds(Raised(RetriesExhaustedText), Raised(msg),
                                    hits + 1)
            ELSE WrapperEnds(Raised(msg), Raised(msg), hits)
  /\ UNCHANGED <<api_key, model_name, op, count, num_questions, i, requested,
                 mock_sleeps, mock_slept, model_idx>>
  /\ UNCHANGED outsideEngine

\* time.sleep(sleep_time); continue
RetrySleep ==
  /\ pc = "retry_sleep"
  /\ sleeps' = sleeps + 1
  /\ attempt' = attempt + 1
  /\ pc' = "retry_call"
  /\ UNCHANGED <<api_key, model_name, op, sleep_time, calls, hits, svc_out,
                 retry_out, result, count, model_idx>>
  /\ UNCHANGED mockVars
  /\ UNCHANGED outsideEngine

\* generate_mock_test(num_questions = n, model_name = m) up to the loop
StartMock(n, m) ==
  /\ Idle
  /\ op' = "generate_mock_test"
  /\ model_name' = m
  /\ num_questions' = n
  /\ i' = 0
  /\ all_questions' = <<>>
  /\ errors' = <<>>
  /\ requested' = <<>>
  /\ mock_sleeps' = 0
  /\ mock_slept' = 0
  /\ count' = 0
  /\ SetCall(FreshCall)
  /\ model_idx' = 0
  /\ result' = PyNone
  /\ pc' = "mock_loop"
  /\ UNCHANGED api_key
  /\ UNCHANGED outsideEngine

\* the subject loop: the count of subject i, and generate_questions up to
\* its first service call
MockIterate ==
  /\ pc = "mock_loop"
  /\ i < Len(subjects)
  /\ LET c == SubjectCount(num_questions, i)
     IN  IF c = 0
           THEN /\ i' = i + 1
                /\ UNCHANGED <<pc, result, count, all_questions, errors,
                               requested>>
                /\ UNCHANGED retryVars
           ELSE /\ count' = c
                /\ requested' = Append(requested, c)
                /\ UNCHANGED i
                /\ LET r == GenPrologue(api_key, model_name)
                   IN  IF r.type # "none"
                         THEN MockHandle(r)
                         ELSE /\ pc' = "retry_call"
                              /\ SetCall(FreshCall)
                              /\ UNCHANGED <<result, all_questions, errors>>
  /\ UNCHANGED <<api_key, model_name, op, num_questions, mock_sleeps,
                 mock_slept, model_idx>>
  /\ UNCHANGED outsideEngine

\* MockSleep without the pause
MockSleepNoPause ==
  /\ pc = "mock_sleep"
  /\ i' = i + 1
  /\ pc' = "mock_loop"
  /\ UNCHANGED <<api_key, model_name, op, result, count, num_questions,
                 all_questions, errors, requested, mock_sleeps, mock_slept,
                 model_idx>>
  /\ UNCHANGED retryVars
  /\ UNCHANGED outsideEngine

\* time.sleep(5) at the end of the loop body
MockSleep ==
  /\ pc = "mock_sleep"
  /\ mock_sleeps' = mock_sleeps + 1
  /\ mock_slept' = mock_slept + MockPause
  /\ i' = i + 1
  /\ pc' = "mock_loop"
  /\ UNCHANGED <<api_key, model_name, op, result, count, num_questions,
                 all_questions, errors, requested, model_idx>>
  /\ UNCHANGED retryVars
  /\ UNCHANGED outsideEngine

\* after the loop
MockReturn ==
  /\ pc = "mock_loop"
  /\ i = Len(subjects)
  /\ result' = IF all_questions = <<>>
                 THEN ErrorDict(MockFailedPrefix \o Join(NewLine, errors))
                 ELSE PyDict([questions |-> all_questions])
  /\ pc' = "done"
  /\ UNCHANGED <<api_key, model_name, op, count, model_idx>>
  /\ UNCHANGED retryVars
  /\ UNCHANGED mockVars
  /\ UNCHANGED outsideEngine

\* ------------------------------------------------------------------------
\* analyze_structure
\* ------------------------------------------------------------------------

models_to_try(m) == <<m, "gemini-flash-latest", "gemini-2.0-flash-lite">>

\* the first index k or later whose model initialises; past the end of
\* models_to_try when there is none
RECURSIVE NextUsable(_, _)
NextUsable(m, k) ==
  IF k > Len(models_to_try(m)) THEN k
  ELSE IF InitRaises(models_to_try(m)[k]) THEN NextUsable(m, k + 1)
  ELSE k

\* the model loop goes on with index k
AnalyzeGoto(k) ==
  /\ model_idx' = NextUsable(model_name, k)
  /\ attempt' = 0
  /\ IF NextUsable(model_name, k) > Len(models_to_try(model_name))
       THEN result' = ErrorDict(AnalyzeFailedText) /\ pc' = "done"
       ELSE pc' = "analyze_call" /\ UNCHANGED result

\* the inner except clause
AnalyzeExcept(msg) ==
  IF Contains(Needle429, msg)
    THEN /\ sleep_time' = 2 * (attempt + 1) * JitterSteps
         /\ pc' = "analyze_sleep"
         /\ UNCHANGED <<model_idx, attempt, result>>
    ELSE /\ AnalyzeGoto(model_idx + 1)
         /\ UNCHANGED sleep_time

\* analyze_structure(model_name = m) up to the first service call
StartAnalyze(m) ==
  /\ Idle
  /\ op' = "analyze_structure"
  /\ model_name' = m
  /\ count' = 0
  /\ sleep_time' = 0
  /\ calls' = 0
  /\ sleeps' = 0
  /\ hits' = 0
  /\ svc_out' = NoOutcome
  /\ retry_out' = NoOutcome
  /\ attempt' = 0
  /\ ResetMock
  /\ IF ~api_key
       THEN /\ result' = ErrorDict(NoKeyDictText)
            /\ pc' = "done"
            /\ model_idx' = 0
       ELSE /\ model_idx' = NextUsable(m, 1)
            /\ result' = PyNone
            /\ pc' = "analyze_call"
  /\ UNCHANGED api_key
  /\ UNCHANGED outsideEngine

\* one attempt: generate_content, the clean-up and json.loads
AnalyzeCall ==
  /\ pc = "analyze_call"
  /\ calls' = calls + 1
  /\ \/ \E text \in ResponseTexts :
          LET parsed == JsonLoads(StripFences(text), StructureDoc)
          IN  /\ svc_out' = Returned(text)
              /\ IF parsed.ok
                   THEN /\ result' = parsed.value
                        /\ pc' = "done"
                        /\ UNCHANGED <<model_idx, attempt, sleep_time>>
                   ELSE AnalyzeExcept(parsed.msg)
     \/ \E msg \in ServiceErrors :
          /\ svc_out' = Raised(msg)
          /\ AnalyzeExcept(msg)
  /\ UNCHANGED <<api_key, model_name, op, sleeps, hits, retry_out, count>>
  /\ UNCHANGED mockVars
  /\ UNCHANGED outsideEngine

\* time.sleep(2 * (attempt + 1)); continue
AnalyzeSleep ==
  /\ pc = "analyze_sleep"
  /\ sleeps' = sleeps + 1
  /\ IF attempt + 1 < AnalyzeAttempts
       THEN /\ attempt' = attempt + 1
            /\ pc' = "analyze_call"
            /\ UNCHANGED <<model_idx, result>>
       ELSE AnalyzeGoto(model_idx + 1)
  /\ UNCHANGED <<api_key, model_name, op, sleep_time, calls, hits, svc_out,
                 retry_out, count>>
  /\ UNCHANGED mockVars
  /\ UNCHANGED outsideEngine

\* ------------------------------------------------------------------------
\* Specification
\* ------------------------------------------------------------------------

\* the operations of the engine called one by one
Next ==
  \/ \E k \in BOOLEAN : SetApiKey(k)
  \/ \E n \in 1..MaxQuestions, m \in ModelNames : StartGenerate(n, m)
  \/ \E m \in ModelNames : StartEvaluate(m)
  \/ \E m \in ModelNames : StartAnalyze(m)
  \/ RetryCall
  \/ RetrySleep
  \/ AnalyzeCall
  \/ AnalyzeSleep

Spec == Init /\ [][Next]_vars

\* the service changes the correct_option it writes
ServiceKey(k) ==
  /\ svc_key # k
  /\ svc_key' = k
  /\ UNCHANGED <<engineVars, libVars, histVars, appVars>>

\* the engine with a service that is free in the answer key it returns
AnswerKeyNext ==
  \/ Next
  \/ \E k \in AnswerKeys : ServiceKey(k)

SpecAnswerKey == Init /\ [][AnswerKeyNext]_vars

\* the mock test
MockNext ==
  \/ \E k \in BOOLEAN : SetApiKey(k)
  \/ \E n \in MockTotals, m \in ModelNames : StartMock(n, m)
  \/ RetryCall
  \/ RetrySleep
  \/ MockIterate
  \/ MockSleep
  \/ MockReturn

SpecMock == Init /\ [][MockNext]_vars

\* the engine when a call that has begun goes on: the service answers or
\* raises, and a sleep ends
SpecAnalyzeFair ==
  /\ Init
  /\ [][Next]_vars
  /\ WF_vars(AnalyzeCall)
  /\ WF_vars(AnalyzeSleep)

\* ------------------------------------------------------------------------
\* Librarian (librarian.py)
\* ------------------------------------------------------------------------

\* the watched directory
LIBRARY_DIR ==
  <<"l","i","b","r","a","r","y">>

\* the only log line of a scan that found no library directory
CreatedLog ==
  <<"C","r","e","a","t","e","d"," ","l","i","b","r","a","r","y"," ","d","i",
    "r","e","c","t","o","r","y",".">>

RemovedLogPrefix ==
  <<"U+1F5D1","U+FE0F"," ","R","e","m","o","v","e","d"," ","m","i","s","s",
    "i","n","g"," ","f","i","l","e"," ","f","r","o","m"," ","i","n","d","e",
    "x",":"," ">>

IndexingLogPrefix ==
  <<"U+1F50D"," ","I","n","d","e","x","i","n","g"," ","n","e","w"," ","f",
    "i","l","e",":"," ">>

ErrorLogPrefix ==
  <<"U+274C"," ","E","r","r","o","r"," ","i","n","d","e","x","i","n","g"," ">>

IndexedLogPrefix ==
  <<"U+2705"," ","S","u","c","c","e","s","s","f","u","l","l","y"," ","i",
    "n","d","e","x","e","d"," ">>

ChaptersFoundSuffix ==
  <<" ","c","h","a","p","t","e","r","s"," ","f","o","u","n","d",")",".">>

\* prefix of the text extract_text_from_pdf returns on any exception (engine.py:185)
ExtractErrorPrefix ==
  <<"E","r","r","o","r"," ","e","x","t","r","a","c","t","i","n","g"," ","t",
    "e","x","t",":"," ">>

\* message of open() on a missing path, up to the path
NoSuchFilePrefix ==
  <<"[","E","r","r","n","o"," ","2","]"," ","N","o"," ","s","u","c","h"," ",
    "f","i","l","e"," ","o","r"," ","d","i","r","e","c","t","o","r","y",":",
    " ","'">>

PdfSuffix ==
  <<".","p","d","f">>

DigitChars == <<"0", "1", "2", "3", "4", "5", "6", "7", "8", "9">>

\* str(n) of a natural number
RECURSIVE Str(_)
Str(n) ==
  IF n < 10 THEN <<DigitChars[n + 1]>>
            ELSE Str(n \div 10) \o <<DigitChars[(n % 10) + 1]>>

PyInt(n) == [type |-> "int", val |-> n]

\* bool(v) of an int or None
Truthy(v) == v.type = "int" /\ v.val # 0

\* d.get(k, default)
Get(d, k, default) == IF k \in DOMAIN d THEN d[k] ELSE default

Range(s) == {s[k] : k \in DOMAIN s}

\* the sequences that list every element of S once: the orders in which
\* os.listdir and the iteration over a set can give S
Orderings(S) ==
  {s \in [1..Cardinality(S) -> S] : Range(s) = S}

EndsWith(s, suffix) ==
  /\ Len(s) >= Len(suffix)
  /\ SubSeq(s, Len(s) - Len(suffix) + 1, Len(s)) = suffix

\* f.lower().endswith('.pdf')
IsPdf(f) == EndsWith(Lower(f), PdfSuffix)

\* os.path.join(d, f)
PathJoin(d, f) == d \o <<"/">> \o f

\* _calculate_file_hash: the MD5 digest of the content
Hash(v) == <<"md5", v>>

\* the page texts of each content version that is a PDF, one token a page
PageTexts ==
  [v1 |-> <<
         "v1p1", "v1p2", "v1p3", "v1p4", "v1p5", "v1p6", "v1p7",
         "v1p8", "v1p9", "v1p10", "v1p11", "v1p12", "v1p13", "v1p14",
         "v1p15", "v1p16", "v1p17", "v1p18", "v1p19", "v1p20">>,
   v2 |-> <<
         "v2p1", "v2p2", "v2p3", "v2p4", "v2p5", "v2p6", "v2p7",
         "v2p8">>]

\* contents that are no readable PDF: a file that cannot be opened, and a
\* file that opens but is no PDF
FaultyContents == {"unreadable", "corrupt"}

\* message of open() on a file that cannot be read, up to the path
PermissionDeniedPrefix ==
  <<"[","E","r","r","n","o"," ","1","3","]"," ","P","e","r","m","i","s","s",
    "i","o","n"," ","d","e","n","i","e","d",":"," ","'">>

\* message of PyPDF2.PdfReader on a file that is no PDF
MsgNotPdf ==
  <<"E","O","F"," ","m","a","r","k","e","r"," ","n","o","t"," ","f","o","u",
    "n","d">>

\* the number of pages of each content version
TotalPages(v) == Len(PageTexts[v])

\* extract_text_from_pdf(path of f, start_page, end_page) with the
\* directory holding d: the texts of the pages read, or the error text
\* when the file cannot be opened or parsed
extract_text_from_pdf(d, f, start_page, end_page) ==
  IF f \notin DOMAIN d
    THEN PyStr(ExtractErrorPrefix \o NoSuchFilePrefix
                 \o PathJoin(LIBRARY_DIR, f) \o <<"'">>)
  ELSE IF d[f] = "unreadable"
    THEN PyStr(ExtractErrorPrefix \o PermissionDeniedPrefix
                 \o PathJoin(LIBRARY_DIR, f) \o <<"'">>)
  ELSE IF d[f] = "corrupt"
    THEN PyStr(ExtractErrorPrefix \o MsgNotPdf)
  ELSE LET total_pages == TotalPages(d[f])
           start_idx == Max(0, start_page - 1)
           end_idx == IF end_page = PyNone THEN total_pages
                                           ELSE Min(total_pages, end_page.val)
       IN  PyStr([k \in 1..(end_idx - start_idx) |->
                    PageTexts[d[f]][start_idx + k]])

\* whether a text is an error text of extract_text_from_pdf
IsExtractError(text) ==
  /\ Len(text) >= Len(ExtractErrorPrefix)
  /\ SubSeq(text, 1, Len(ExtractErrorPrefix)) = ExtractErrorPrefix

\* the subject and the chapters a table of contents of version v names
SubjectOf(v) == IF v = "v1" THEN "Indian Polity" ELSE "Geography"

ChaptersOf(v) ==
  <<[index |-> 1, title |-> v, page_start |-> PyInt(3),
     page_end |-> PyInt(12)],
    [index |-> 2, title |-> v, page_start |-> PyInt(5),
     page_end |-> PyInt(0)],
    [index |-> 3, title |-> v, page_start |-> PyInt(7),
     page_end |-> PyInt(4)]>>

\* what analyze_structure(toc_text, filename) can return: the error of a
\* missing credential, the error after all models failed, or the parsed
\* answer of the model, which names the subject or leaves it out; for a
\* text that is the error text of a failed extraction the model has no
\* table of contents to read and answers from the file name alone
AnalyzeResults(key, toc_text) ==
  IF ~key
    THEN {ErrorDict(NoKeyDictText)}
  ELSE IF IsExtractError(toc_text.val)
    THEN {ErrorDict(AnalyzeFailedText),
          PyDict([subject |-> "General Studies", chapters |-> <<>>])}
  ELSE LET v == CHOOSE w \in DOMAIN PageTexts :
                  toc_text.val[1] \in Range(PageTexts[w])
       IN  {ErrorDict(AnalyzeFailedText),
            PyDict([subject |-> SubjectOf(v), chapters |-> ChaptersOf(v)]),
            PyDict([chapters |-> ChaptersOf(v)])}

RemovedLog(f) == RemovedLogPrefix \o f

IndexingLog(f) == IndexingLogPrefix \o f \o <<".", ".", ".">>

ErrorLog(f, e) == ErrorLogPrefix \o f \o ColonSpace \o e

\* whether a log line reports a failed inference
IsErrorLog(line) ==
  /\ Len(line) >= Len(ErrorLogPrefix)
  /\ SubSeq(line, 1, Len(ErrorLogPrefix)) = ErrorLogPrefix

IndexedLog(f, n) ==
  IndexedLogPrefix \o f \o <<" ", "(">> \o Str(n) \o ChaptersFoundSuffix

\* Removed finding no entry to delete
RemovedNone(idx, current_files) == {}

\* removed = indexed_files - current_files
Removed(idx, current_files) == DOMAIN idx \ current_files

\* NeedsIndexing sending every file to structure inference
NeedsIndexingAlways(idx, filename, file_hash) == TRUE

\* the test that sends a file to structure inference
NeedsIndexing(idx, filename, file_hash) ==
  \/ filename \notin DOMAIN idx
  \/ Get(idx[filename], "hash", PyNone) # file_hash

\* InferenceFailed taking every answer for a structure
InferenceFailedNever(st) == FALSE

\* if "error" in structure
InferenceFailed(st) == In("error", NeedleError, st)

\* NewEntry storing the digest of no content
NewEntryHashOfNothing(filename, file_hash, st) ==
  [hash |-> Hash(""),
   subject |-> Get(st.val, "subject", "Unknown"),
   chapters |-> Get(st.val, "chapters", <<>>),
   path |-> PathJoin(LIBRARY_DIR, filename)]

\* the entry scan_library stores after a successful inference
NewEntry(filename, file_hash, st) ==
  [hash |-> file_hash,
   subject |-> Get(st.val, "subject", "Unknown"),
   chapters |-> Get(st.val, "chapters", <<>>),
   path |-> PathJoin(LIBRARY_DIR, filename)]

\* get_library_structure: subject -> list of the files stored under it
\* (a list is in the order of the index; the model takes one order)
get_library_structure(idx) ==
  LET subj(f) == Get(idx[f], "subject", "Uncategorized")
      item(f) == [filename |-> f,
                  filepath |-> Get(idx[f], "path", PyNone),
                  chapters |-> Get(idx[f], "chapters", <<>>)]
      under(s) == {f \in DOMAIN idx : subj(f) = s}
  IN  [s \in {subj(f) : f \in DOMAIN idx} |->
         LET order == CHOOSE o \in Orderings(under(s)) : TRUE
         IN  [k \in 1..Len(order) |-> item(order[k])]]

\* get_chapter_content(filename, chapter_index) with the directory holding d
get_chapter_content(idx, d, filename, chapter_index) ==
  IF filename \notin DOMAIN idx THEN PyNone
  ELSE
    LET chapters == Get(idx[filename], "chapters", <<>>)
        found == {k \in 1..Len(chapters) : chapters[k].index = chapter_index}
    IN  IF found = {} THEN PyNone
        ELSE
          LET target_chapter ==
                chapters[CHOOSE k \in found : \A j \in found : k <= j]
              start == Get(target_chapter, "page_start", PyInt(1))
              end == Get(target_chapter, "page_end", PyNone)
              end_page == IF Truthy(end) /\ end.val < start.val
                            THEN PyInt(start.val + 10)
                            ELSE end
          IN  extract_text_from_pdf(d, filename, start.val, end_page)

LibIdle == lib_pc \in {"idle", "done", "raised"}

\* PdfNames overlooking names in upper case
PdfNamesCaseSensitive(d) == {f \in DOMAIN d : EndsWith(f, PdfSuffix)}

\* names of the PDF files in the library directory
\* (files = [f for f in os.listdir(LIBRARY_DIR) if ...])
PdfNames(d) == {f \in DOMAIN d : IsPdf(f)}

\* d with the value x under key f
Put(d, f, x) == [g \in DOMAIN d \cup {f} |-> IF g = f THEN x ELSE d[g]]

\* d without the keys of S
Without(d, S) == [g \in DOMAIN d \ S |-> d[g]]

\* nothing of an earlier scan is looked at any more
ForgetScan ==
  /\ lib_pc' = "idle"
  /\ files' = <<>>
  /\ pos' = 0
  /\ logs' = <<>>
  /\ structure' = PyNone
  /\ analyzed' = [f \in Filenames |-> 0]
  /\ prev_scan' = "none"

\* Librarian(k): a new session loads the index from INDEX_FILE
NewLibrarian(k) ==
  /\ LibIdle
  /\ api_key' = k
  /\ index' = index_file.files
  /\ inferred' = Without(inferred, DOMAIN inferred \ DOMAIN index_file.files)
  /\ query' = NoQuery
  /\ ForgetScan
  /\ UNCHANGED <<dir_exists, disk, index_file>>
  /\ UNCHANGED <<model_name, op, pc, result, count, model_idx>>
  /\ UNCHANGED retryVars
  /\ UNCHANGED mockVars
  /\ UNCHANGED <<svc_key, histVars, appVars>>

\* a file is added to the library directory, or its content is replaced
WriteFile(f, v) ==
  /\ LibIdle
  /\ ~(f \in DOMAIN disk /\ disk[f] = v)
  /\ dir_exists' = TRUE
  /\ disk' = Put(disk, f, v)
  /\ query' = NoQuery
  /\ ForgetScan
  /\ UNCHANGED <<index_file, index, inferred>>
  /\ UNCHANGED outsideLibrarian

\* a file is deleted from the library directory
RemoveFile(f) ==
  /\ LibIdle
  /\ f \in DOMAIN disk
  /\ disk' = Without(disk, {f})
  /\ query' = NoQuery
  /\ ForgetScan
  /\ UNCHANGED <<dir_exists, index_file, index, inferred>>
  /\ UNCHANGED outsideLibrarian

\* the library directory is deleted with all its files
RemoveDir ==
  /\ LibIdle
  /\ dir_exists
  /\ dir_exists' = FALSE
  /\ disk' = EmptyDict
  /\ query' = NoQuery
  /\ ForgetScan
  /\ UNCHANGED <<index_file, index, inferred>>
  /\ UNCHANGED outsideLibrarian

\* scan_library up to the loop over the files: the directory is created
\* and the scan returns, or the files are listed and the entries of the
\* missing ones deleted
ScanStart ==
  /\ LibIdle
  /\ query' = NoQuery
  /\ structure' = PyNone
  /\ analyzed' = [f \in Filenames |-> 0]
  /\ pos' = 0
  /\ prev_scan' = IF lib_pc # "done" THEN "none"
                  ELSE IF \E k \in 1..Len(logs) : IsErrorLog(logs[k])
                         THEN "failed"
                         ELSE "clean"
  /\ IF ~dir_exists
       THEN /\ dir_exists' = TRUE
            /\ logs' = <<CreatedLog>>
            /\ lib_pc' = "done"
            /\ files' = <<>>
            /\ UNCHANGED <<index, inferred>>
       ELSE LET current_files == PdfNames(disk)
                removed == Removed(index, current_files)
            IN  \E fs \in Orderings(current_files), rs \in Orderings(removed) :
                  /\ files' = fs
                  /\ index' = Without(index, removed)
                  /\ inferred' = Without(inferred, removed)
                  /\ logs' = [k \in 1..Len(rs) |-> RemovedLog(rs[k])]
                  /\ lib_pc' = "scan"
                  /\ UNCHANGED dir_exists
  /\ UNCHANGED <<disk, index_file>>
  /\ UNCHANGED outsideLibrarian

\* one round of the loop over the files; open() in _calculate_file_hash
\* raises for a file that cannot be read, and nothing catches it
ScanFile ==
  /\ lib_pc = "scan"
  /\ pos < Len(files)
  /\ IF disk[files[pos + 1]] = "unreadable"
       THEN /\ lib_pc' = "raised"
            /\ UNCHANGED <<structure, analyzed, index, index_file, inferred,
                           logs, pos>>
       ELSE
         /\ LET filename == files[pos + 1]
                file_hash == Hash(disk[filename])
            IN  IF NeedsIndexing(index, filename, file_hash)
                  THEN
                    LET toc_text ==
                          extract_text_from_pdf(disk, filename, 1, PyInt(15))
                    IN  \E st \in AnalyzeResults(api_key, toc_text) :
                          /\ structure' = st
                          /\ analyzed' = [analyzed EXCEPT ![filename] = @ + 1]
                          /\ IF InferenceFailed(st)
                               THEN /\ logs' = logs \o
                                         <<IndexingLog(filename),
                                           ErrorLog(filename, st.val.error)>>
                                    /\ UNCHANGED <<index, index_file,
                                                   inferred>>
                               ELSE /\ index' =
                                         Put(index, filename,
                                             NewEntry(filename, file_hash, st))
                                    /\ index_file' =
                                         [exists |-> TRUE, files |-> index']
                                    /\ inferred' =
                                         Put(inferred, filename,
                                             [version |-> disk[filename],
                                              structure |-> st])
                                    /\ logs' = logs \o
                                         <<IndexingLog(filename),
                                           IndexedLog(filename,
                                             Len(Get(st.val, "chapters",
                                                     <<>>)))>>
                  ELSE UNCHANGED <<structure, analyzed, index, index_file,
                                   inferred, logs>>
         /\ pos' = pos + 1
         /\ UNCHANGED lib_pc
  /\ UNCHANGED <<dir_exists, disk, files, prev_scan, query>>
  /\ UNCHANGED outsideLibrarian

\* after the loop: the index is saved and the logs are returned
ScanFinish ==
  /\ lib_pc = "scan"
  /\ pos = Len(files)
  /\ index_file' = [exists |-> TRUE, files |-> index]
  /\ lib_pc' = "done"
  /\ UNCHANGED <<dir_exists, disk, index, files, pos, logs, structure,
                 analyzed, inferred, prev_scan, query>>
  /\ UNCHANGED outsideLibrarian

\* a call of get_library_structure()
GetLibraryStructure ==
  /\ LibIdle
  /\ query' = [op |-> "get_library_structure",
               out |-> get_library_structure(index)]
  /\ ForgetScan
  /\ UNCHANGED <<dir_exists, disk, index_file, index, inferred>>
  /\ UNCHANGED outsideLibrarian

\* a call of get_chapter_content(filename, chapter_index)
GetChapterContent(filename, chapter_index) ==
  /\ LibIdle
  /\ query' = [op |-> "get_chapter_content", filename |-> filename,
               chapter_index |-> chapter_index,
               out |-> get_chapter_content(index, disk, filename,
                                           chapter_index)]
  /\ ForgetScan
  /\ UNCHANGED <<dir_exists, disk, index_file, index, inferred>>
  /\ UNCHANGED outsideLibrarian

LibNext ==
  \/ \E k \in BOOLEAN : NewLibrarian(k)
  \/ \E f \in Filenames, v \in Versions : WriteFile(f, v)
  \/ \E f \in Filenames : RemoveFile(f)
  \/ RemoveDir
  \/ ScanStart
  \/ ScanFile
  \/ ScanFinish
  \/ GetLibraryStructure
  \/ \E f \in Filenames, n \in 1..4 : GetChapterContent(f, n)

SpecLibrarian == Init /\ [][LibNext]_vars

\* a PDF of the library directory becomes unreadable, or a file that is
\* no PDF is put there under a PDF name
WriteFaultyFile(f, v) ==
  /\ LibIdle
  /\ dir_exists
  /\ ~(f \in DOMAIN disk /\ disk[f] = v)
  /\ disk' = Put(disk, f, v)
  /\ query' = NoQuery
  /\ ForgetScan
  /\ UNCHANGED <<dir_exists, index_file, index, inferred>>
  /\ UNCHANGED outsideLibrarian

\* scans of a library with files that fail to open or to parse
LibFaultNext ==
  \/ \E f \in {FileA, FileB}, v \in Versions : WriteFile(f, v)
  \/ \E f \in {FileA, FileB}, v \in FaultyContents : WriteFaultyFile(f, v)
  \/ \E f \in {FileA, FileB} : RemoveFile(f)
  \/ ScanStart
  \/ ScanFile
  \/ ScanFinish

SpecLibrarianFaults == Init /\ [][LibFaultNext]_vars

\* ------------------------------------------------------------------------
\* QuizHistory (quiz_history_manager.py)
\* ------------------------------------------------------------------------

\* most uuid4 values drawn in a run
MaxSaves == 3

\* the values of datetime.now().strftime("%Y-%m-%d %H:%M") in a run
Minutes == <<"2026-01-01 10:00", "2026-01-01 10:01">>

\* the topics and the scores (in hundredths of a mark, with the maximum in
\* marks) the saved attempts have
HistoryTopics == {"Polity", "Economy"}

HistoryScores == {<<200, 2>>, <<-66, 2>>}

\* a history file that is there but cannot be loaded: text that is no
\* JSON (a write cut short), or bytes that are no text in the encoding
\* open(..., 'r') decodes with
DamagedStates == {"truncated", "undecodable"}

MsgUnicodeDecode ==
  <<"U", "n", "i", "c", "o", "d", "e", "D", "e", "c", "o", "d", "e",
    "E", "r", "r", "o", "r">>

PyList(v) == [type |-> "list", val |-> v]

\* json.dump(history, f): the file holds the array
HistoryFileOf(history) == [state |-> "json", records |-> history]

\* load_history on file: FileNotFoundError and JSONDecodeError are caught,
\* the UnicodeDecodeError of f.read() is not
load_history(file) ==
  IF file.state = "json" THEN PyList(file.records)
  ELSE IF file.state \in {"missing", "truncated"} THEN PyList(<<>>)
  ELSE PyRaise(MsgUnicodeDecode)

\* Uuid giving every draw the value of the first
UuidOfFirstDraw(n) == <<"uuid", 1>>

\* str(uuid.uuid4()) of the n-th draw: a value no other draw gives
Uuid(n) == <<"uuid", n>>

\* the ids get_quiz is asked for: those drawn, and one never drawn
QuizIds == {Uuid(n) : n \in 1..(MaxSaves + 1)}

\* the entry save_quiz builds
HistoryEntry(id, timestamp, topic, quiz, score, max_score) ==
  [id |-> id, timestamp |-> timestamp, topic |-> topic, score |-> score,
   max_score |-> max_score, questions |-> quiz]

\* InsertFront appending the entry at the end
InsertBack(history, e) == history \o <<e>>

\* history.insert(0, entry)
InsertFront(history, e) == <<e>> \o history

\* the loop of get_quiz over history
RECURSIVE FirstWithId(_, _)
FirstWithId(history, quiz_id) ==
  IF history = <<>> THEN PyNone
  ELSE IF Head(history).id = quiz_id THEN PyDict(Head(history))
  ELSE FirstWithId(Tail(history), quiz_id)

get_quiz(file, quiz_id) ==
  LET history == load_history(file)
  IN  IF history.type = "raise" THEN history
      ELSE FirstWithId(history.val, quiz_id)

\* the questions saved with an attempt on topic t
QuizOn(t) == Questions(1, t)

\* save_quiz(topic, quiz, score, max_score) on file when the next uuid4 is
\* the n-th and the clock shows minute c: the file afterwards, the entry,
\* and what the call returns or raises
save_quiz(file, n, c, topic, quiz, score, max_score) ==
  LET history == load_history(file)
      e == HistoryEntry(Uuid(n), Minutes[c], topic, quiz, score, max_score)
  IN  IF history.type = "raise"
        THEN [file |-> file, drew |-> FALSE, entry |-> e, out |-> history]
      ELSE [file |-> HistoryFileOf(InsertFront(history.val, e)),
            drew |-> TRUE, entry |-> e, out |-> PyStr(e.id)]

\* _ensure_file
ensure_file(file) ==
  IF file.state = "missing" THEN HistoryFileOf(<<>>) ELSE file

NoSaving == \A p \in Sessions : saving[p].pc # "loaded"

\* QuizHistory(): _ensure_file
NewQuizHistory ==
  /\ NoSaving
  /\ hist_out.op # "init"
  /\ history_file' = ensure_file(history_file)
  /\ hist_out' = [op |-> "init"]
  /\ UNCHANGED <<uuid_count, clock, saving, saved>>
  /\ UNCHANGED <<engineVars, libVars, svc_key, appVars>>

SaveQuiz(topic, score, max_score) ==
  /\ NoSaving
  /\ uuid_count < MaxSaves
  /\ LET r == save_quiz(history_file, uuid_count + 1, clock, topic,
                        QuizOn(topic), score, max_score)
     IN  /\ history_file' = r.file
         /\ uuid_count' = IF r.drew THEN uuid_count + 1 ELSE uuid_count
         /\ saved' = IF r.drew THEN Put(saved, r.entry.id, r.entry) ELSE saved
         /\ hist_out' = [op |-> "save_quiz", topic |-> topic,
                         score |-> score, max_score |-> max_score,
                         questions |-> QuizOn(topic), out |-> r.out]
  /\ UNCHANGED <<clock, saving>>
  /\ UNCHANGED <<engineVars, libVars, svc_key, appVars>>

LoadHistory ==
  /\ hist_out.op # "load_history"
  /\ hist_out' = [op |-> "load_history", out |-> load_history(history_file)]
  /\ UNCHANGED <<history_file, uuid_count, clock, saving, saved>>
  /\ UNCHANGED <<engineVars, libVars, svc_key, appVars>>

GetQuiz(quiz_id) ==
  /\ hist_out' = [op |-> "get_quiz", quiz_id |-> quiz_id,
                  out |-> get_quiz(history_file, quiz_id)]
  /\ hist_out' # hist_out
  /\ UNCHANGED <<history_file, uuid_count, clock, saving, saved>>
  /\ UNCHANGED <<engineVars, libVars, svc_key, appVars>>

\* a minute passes
Tick ==
  /\ clock < Len(Minutes)
  /\ clock' = clock + 1
  /\ UNCHANGED <<history_file, uuid_count, saving, hist_out, saved>>
  /\ UNCHANGED <<engineVars, libVars, svc_key, appVars>>

\* the file is deleted from outside
DeleteHistoryFile ==
  /\ NoSaving
  /\ history_file.state # "missing"
  /\ history_file' = [state |-> "missing", records |-> <<>>]
  /\ saved' = EmptyDict
  /\ hist_out' = NoQuery
  /\ UNCHANGED <<uuid_count, clock, saving>>
  /\ UNCHANGED <<engineVars, libVars, svc_key, appVars>>

\* the file is damaged from outside
DamageHistoryFile(k) ==
  /\ NoSaving
  /\ history_file.state # k
  /\ history_file' = [state |-> k, records |-> <<>>]
  /\ saved' = EmptyDict
  /\ hist_out' = NoQuery
  /\ UNCHANGED <<uuid_count, clock, saving>>
  /\ UNCHANGED <<engineVars, libVars, svc_key, appVars>>

HistoryNext ==
  \/ NewQuizHistory
  \/ \E t \in HistoryTopics, sc \in HistoryScores : SaveQuiz(t, sc[1], sc[2])
  \/ LoadHistory
  \/ \E id \in QuizIds : GetQuiz(id)
  \/ Tick

SpecHistory == Init /\ [][HistoryNext]_vars

HistoryFaultNext ==
  \/ HistoryNext
  \/ DeleteHistoryFile
  \/ \E k \in DamagedStates : DamageHistoryFile(k)

SpecHistoryFaults == Init /\ [][HistoryFaultNext]_vars

\* save_quiz of session p up to the open(..., 'w'): the history is loaded,
\* the entry built and inserted
SaveBegin(p, topic, score, max_score) ==
  /\ saving[p].pc # "loaded"
  /\ uuid_count < MaxSaves
  /\ LET r == save_quiz(history_file, uuid_count + 1, clock, topic,
                        QuizOn(topic), score, max_score)
     IN  /\ saving' = [saving EXCEPT ![p] =
                         IF r.drew
                           THEN [pc |-> "loaded", loaded |-> history_file.records,
                                 history |-> r.file.records,
                                 entry |-> r.entry]
                         ELSE [pc |-> "raised", out |-> r.out]]
         /\ uuid_count' = IF r.drew THEN uuid_count + 1 ELSE uuid_count
  /\ UNCHANGED <<history_file, clock, hist_out, saved>>
  /\ UNCHANGED <<engineVars, libVars, svc_key, appVars>>

\* SaveWrite inserting the entry into what the file holds now
SaveWriteMerging(p) ==
  /\ saving[p].pc = "loaded"
  /\ history_file' =
       HistoryFileOf(InsertFront(history_file.records, saving[p].entry))
  /\ saving' = [saving EXCEPT ![p] =
                  [pc |-> "returned", loaded |-> saving[p].loaded,
                   entry |-> saving[p].entry,
                   out |-> PyStr(saving[p].entry.id)]]
  /\ saved' = Put(saved, saving[p].entry.id, saving[p].entry)
  /\ UNCHANGED <<uuid_count, clock, hist_out>>
  /\ UNCHANGED <<engineVars, libVars, svc_key, appVars>>

\* save_quiz of session p from the open(..., 'w') on: the list it holds
\* replaces the file, and the id is returned
SaveWrite(p) ==
  /\ saving[p].pc = "loaded"
  /\ history_file' = HistoryFileOf(saving[p].history)
  /\ saving' = [saving EXCEPT ![p] =
                  [pc |-> "returned", loaded |-> saving[p].loaded,
                   entry |-> saving[p].entry,
                   out |-> PyStr(saving[p].entry.id)]]
  /\ saved' = Put(saved, saving[p].entry.id, saving[p].entry)
  /\ UNCHANGED <<uuid_count, clock, hist_out>>
  /\ UNCHANGED <<engineVars, libVars, svc_key, appVars>>

HistoryRaceNext ==
  \/ \E p \in Sessions, t \in HistoryTopics, sc \in HistoryScores :
       SaveBegin(p, t, sc[1], sc[2])
  \/ \E p \in Sessions : SaveWrite(p)

SpecHistoryRace == Init /\ [][HistoryRaceNext]_vars

\* ------------------------------------------------------------------------
\* The quiz session (app.py)
\* ------------------------------------------------------------------------

\* the pages of the sidebar the quiz flow uses
Pages == {"Home", "Topic Practice", "Quiz History"}

\* the numbers of questions asked for
QuizLengths == {1, 2}

\* the topic typed into the text input
TopicTyped == "Polity"

\* st.radio(..., index = None) of a question: one of the keys shown, or
\* None while nothing is selected
NoChoice == "None"

Choices == {"A", "B", NoChoice}

\* the marks of the score arithmetic, in hundredths: 2 and 0.66
MarkCorrect == 200

MarkWrong == 66

\* user_answers.get(k)
AnswerAt(answers, k) == Get(answers, k, NoChoice)

\* the loop of the submit handler over the first k questions
RECURSIVE SubmitScore(_, _, _)
SubmitScore(quiz, answers, k) ==
  IF k = 0 THEN 0
  ELSE LET _choice == AnswerAt(answers, k - 1)
           rest == SubmitScore(quiz, answers, k - 1)
       IN  IF _choice = quiz[k].correct_option THEN rest + MarkCorrect
           ELSE IF _choice # NoChoice THEN rest - MarkWrong
           ELSE rest

\* ResultsScore without the negative marking
RECURSIVE ResultsScoreNoPenalty(_, _, _)
ResultsScoreNoPenalty(quiz, answers, k) ==
  IF k = 0 THEN 0
  ELSE LET user_choice == AnswerAt(answers, k - 1)
           rest == ResultsScoreNoPenalty(quiz, answers, k - 1)
       IN  IF user_choice = quiz[k].correct_option THEN rest + MarkCorrect
           ELSE rest

\* the loop of the results view over the first k questions
RECURSIVE ResultsScore(_, _, _)
ResultsScore(quiz, answers, k) ==
  IF k = 0 THEN 0
  ELSE LET user_choice == AnswerAt(answers, k - 1)
           rest == ResultsScore(quiz, answers, k - 1)
       IN  IF user_choice = quiz[k].correct_option THEN rest + MarkCorrect
           ELSE IF user_choice # NoChoice THEN rest - MarkWrong
           ELSE rest

\* what the script renders under "Performance Report" at the end of a run
ResultsView(submitted, quiz, answers) ==
  IF submitted
    THEN [op |-> "results", quiz |-> quiz, answers |-> answers,
          score |-> ResultsScore(quiz, answers, Len(quiz)),
          max_score |-> Len(quiz) * 2]
  ELSE NoQuery

\* what generate_questions can return to the handler for n questions
GenerateOutcomes(n) == {QuestionsDoc(n, 0), ErrorDict(ServiceBusyText)}

\* the sidebar radio
Navigate(page) ==
  /\ navigation # page
  /\ navigation' = page
  /\ UNCHANGED <<quiz_data, quiz_active, quiz_submitted, user_answers,
                 current_topic, answered, attempts, shown>>
  /\ UNCHANGED <<engineVars, libVars, svc_key, histVars>>

\* "Begin Session" on the Topic Practice page
BeginSession(n) ==
  /\ navigation = "Topic Practice"
  /\ \E response_json \in GenerateOutcomes(n) :
       IF ~api_key \/ "error" \in DOMAIN response_json.val
         THEN UNCHANGED <<quiz_data, quiz_active, current_topic, shown>>
       ELSE /\ quiz_data' = response_json.val.questions
            /\ quiz_active' = TRUE
            /\ current_topic' = PyStr(TopicTyped)
            /\ shown' = ResultsView(quiz_submitted, quiz_data', user_answers)
  /\ UNCHANGED <<quiz_submitted, user_answers, navigation, answered,
                 attempts>>
  /\ UNCHANGED <<engineVars, libVars, svc_key, histVars>>

\* "Submit Quiz" with the choices made in the form
SubmitQuiz(choices) ==
  /\ quiz_active
  /\ uuid_count < MaxSaves
  /\ DOMAIN choices = 0..(Len(quiz_data) - 1)
  /\ user_answers' = choices
  /\ quiz_submitted' = TRUE
  /\ LET _score == SubmitScore(quiz_data, choices, Len(quiz_data))
         _max == Len(quiz_data) * 2
         topic == IF current_topic = PyNone THEN "General Quiz"
                  ELSE current_topic.val
         r == save_quiz(ensure_file(history_file), uuid_count + 1, clock,
                        topic, quiz_data, _score, _max)
     IN  /\ history_file' = r.file
         /\ uuid_count' = IF r.drew THEN uuid_count + 1 ELSE uuid_count
         /\ saved' = IF r.drew THEN Put(saved, r.entry.id, r.entry) ELSE saved
         /\ attempts' = Append(attempts,
                               [topic |-> topic, questions |-> quiz_data,
                                score |-> _score, max_score |-> _max])
  /\ answered' = quiz_data
  /\ shown' = ResultsView(TRUE, quiz_data, choices)
  /\ UNCHANGED <<quiz_data, quiz_active, current_topic, navigation>>
  /\ UNCHANGED <<clock, saving, hist_out>>
  /\ UNCHANGED <<engineVars, libVars, svc_key>>

\* "Start New Quiz" under the results
reset_quiz ==
  /\ quiz_submitted
  /\ quiz_active' = FALSE
  /\ quiz_submitted' = FALSE
  /\ quiz_data' = <<>>
  /\ user_answers' = EmptyDict
  /\ answered' = <<>>
  /\ shown' = NoQuery
  /\ UNCHANGED <<current_topic, navigation, attempts>>
  /\ UNCHANGED <<engineVars, libVars, svc_key, histVars>>

\* "Retake This Quiz" on record k of the Quiz History page, which is
\* rendered only while no results are
RetakeQuiz(k) ==
  /\ ~quiz_submitted
  /\ navigation = "Quiz History"
  /\ LET history == load_history(ensure_file(history_file))
     IN  /\ history.type = "list"
         /\ k \in 1..Len(history.val)
         /\ quiz_data' = history.val[k].questions
         /\ current_topic' = PyStr(history.val[k].topic)
         /\ history_file' = ensure_file(history_file)
  /\ quiz_active' = TRUE
  /\ quiz_submitted' = FALSE
  /\ user_answers' = EmptyDict
  /\ navigation' = "Topic Practice"
  /\ answered' = <<>>
  /\ shown' = NoQuery
  /\ UNCHANGED attempts
  /\ UNCHANGED <<uuid_count, clock, saving, hist_out, saved>>
  /\ UNCHANGED <<engineVars, libVars, svc_key>>

AppNext ==
  \/ \E page \in Pages : Navigate(page)
  \/ \E n \in QuizLengths : BeginSession(n)
  \/ \E n \in QuizLengths : \E choices \in [0..(n - 1) -> Choices] :
       SubmitQuiz(choices)
  \/ reset_quiz
  \/ \E k \in 1..MaxSaves : RetakeQuiz(k)

SpecApp == Init /\ [][AppNext]_vars

\* ------------------------------------------------------------------------
\* Properties
\* ------------------------------------------------------------------------

\* C1: when every invocation of the wrapped call meets a rate limit,
\* _call_with_retry invokes it 6 times and sleeps 5 times, never sleeps
\* after the 6th failure, and fails; generate_questions then returns the
\* 'service busy' error.
C1_RetryExhaustion ==
  op \in {"generate_questions", "evaluate_questions"} =>
    /\ calls <= 6
    /\ pc = "retry_sleep" => calls <= 5
    /\ (pc = "done" /\ calls > 0 /\ hits = calls) =>
         /\ calls = 6
         /\ sleeps = 5
         /\ retry_out = Raised(RetriesExhaustedText)
         /\ op = "generate_questions" => result = ErrorDict(ServiceBusyText)

C1_Witness ==
  /\ op = "generate_questions"
  /\ pc = "done"
  /\ hits = 6
  /\ calls = 6
  /\ sleeps = 5
  /\ result = ErrorDict(ServiceBusyText)

\* C2: when the first k invocations meet a rate limit and the next one
\* succeeds, k is at most 5, the wrapper slept k times, invoked the call
\* k + 1 times and returns what the call returned.
C2_SuccessAfterRetries ==
  (/\ op \in {"generate_questions", "evaluate_questions"}
   /\ pc = "done"
   /\ svc_out.kind = "return") =>
    /\ hits \in 0..5
    /\ sleeps = hits
    /\ calls = hits + 1
    /\ retry_out = svc_out

C2_Witness ==
  /\ op = "generate_questions"
  /\ pc = "done"
  /\ svc_out.kind = "return"
  /\ hits = 5
  /\ sleeps = 5
  /\ calls = 6

\* C3: the delay before retry a (a = 0..4) is min(60, 5 * 2^a + jitter)
\* with 0 <= jitter < 1: at most 60 s, at least the jitter-free delay 5,
\* 10, 20, 40, 60 and less than one second above it, and the delays of one
\* call never decrease.
C3_Delays ==
  /\ [](pc = "retry_sleep" =>
          /\ attempt \in 0..4
          /\ sleep_time <= 60 * JitterSteps
          /\ sleep_time >= <<5, 10, 20, 40, 60>>[attempt + 1] * JitterSteps
          /\ sleep_time < (<<5, 10, 20, 40, 60>>[attempt + 1] + 1) * JitterSteps)
  /\ [][(pc = "retry_call" /\ pc' = "retry_sleep" /\ sleeps > 0) =>
          sleep_time' >= sleep_time]_vars

C3_Witness ==
  /\ pc = "retry_sleep"
  /\ attempt = 4
  /\ sleeps = 4
  /\ sleep_time = 60 * JitterSteps

\* C4: when an invocation raises an error that is no rate-limit signal,
\* the wrapper raises that same error, without another invocation and
\* without another delay, however many rate limits came before.
C4_OtherErrorPropagates ==
  (/\ op \in {"generate_questions", "evaluate_questions"}
   /\ pc = "done"
   /\ svc_out.kind = "raise"
   /\ svc_out.msg \in {MsgInternal, MsgTokenLimit}) =>
    /\ retry_out = svc_out
    /\ calls = hits + 1
    /\ sleeps = hits

C4_Witness ==
  /\ op = "generate_questions"
  /\ pc = "done"
  /\ svc_out = Raised(MsgInternal)
  /\ retry_out = Raised(MsgInternal)
  /\ hits = 2
  /\ sleeps = 2

\* C5: when the provider raised, generate_questions returns the 'service
\* busy' error only if the wrapper used up its retries on rate-limit
\* signals; a provider error that is no rate-limit signal comes back as a
\* generation error, whatever its text.
C5_BusyOnlyOnExhaustion ==
  (op = "generate_questions" /\ pc = "done" /\ svc_out.kind = "raise") =>
    /\ result = ErrorDict(ServiceBusyText) =>
         retry_out = Raised(RetriesExhaustedText)
    /\ svc_out.msg \in {MsgInternal, MsgTokenLimit} =>
         result = ErrorDict(GenerationErrorPrefix \o svc_out.msg)

\* C6: when the service answers and the text, fences stripped, is no valid
\* JSON, generate_questions calls the service no more and returns a
\* generation error carrying the parser's message, never the 'service
\* busy' error.
C6_ParseFailureIsGenerationError ==
  (/\ op = "generate_questions"
   /\ pc = "done"
   /\ retry_out.kind = "return"
   /\ ~JsonLoads(StripFences(retry_out.text), PyNone).ok) =>
    /\ calls = hits + 1
    /\ result = ErrorDict(GenerationErrorPrefix
                            \o JsonLoads(StripFences(retry_out.text), PyNone).msg)

\* C7: every value generate_questions returns is a mapping with a
\* "questions" key or an "error" key.
C7_ResultIsMapping ==
  (op = "generate_questions" /\ pc = "done") =>
    /\ result.type = "dict"
    /\ \/ "questions" \in DOMAIN result.val
       \/ "error" \in DOMAIN result.val

\* C8: without a credential, generate_questions, evaluate_questions and
\* analyze_structure return an error result and never call the service.
C8_NoKeyNoCall ==
  [][(Idle /\ ~api_key /\ ~api_key') =>
       /\ pc' = "done"
       /\ calls' = 0
       /\ op' = "generate_questions" => result' = PyStr(NoKeyText)
       /\ op' \in {"evaluate_questions", "analyze_structure"} =>
            result' = ErrorDict(NoKeyDictText)]_vars

C8_Witness ==
  /\ op = "analyze_structure"
  /\ pc = "done"
  /\ calls = 0
  /\ result = ErrorDict(NoKeyDictText)

\* C9: for every total, the counts generate_mock_test asks of its 8
\* subjects are ceil(total/8) for the first total mod 8 subjects and
\* floor(total/8) for the others, and sum to the total.
C9_Partition ==
  op = "generate_mock_test" =>
    /\ \A k \in 1..Len(requested) :
         requested[k] = (num_questions \div 8)
                          + (IF k <= num_questions % 8 THEN 1 ELSE 0)
    /\ Len(requested) = 8 =>
         requested[1] + requested[2] + requested[3] + requested[4]
           + requested[5] + requested[6] + requested[7] + requested[8]
             = num_questions

\* C10: once a subject's generate_questions call has returned the 'service
\* busy' error, generate_mock_test has returned that error: no later
\* subject was requested, no pause was slept after it, and the questions
\* collected before are not in the result.
C10_BusyAborts ==
  \A k \in 1..Len(subjects) :
    (/\ op = "generate_mock_test"
     /\ errors # <<>>
     /\ errors[Len(errors)] = subjects[k] \o ColonSpace \o ServiceBusyText) =>
      /\ k = i + 1
      /\ pc = "done"
      /\ result = ErrorDict(ServiceBusyText)
      /\ Len(requested) = i + 1
      /\ mock_sleeps = i

C10_Witness ==
  /\ op = "generate_mock_test"
  /\ pc = "done"
  /\ result = ErrorDict(ServiceBusyText)
  /\ all_questions # <<>>
  /\ i = 3
  /\ mock_sleeps = 3


\* C11: generate_mock_test asks generate_questions for one subject at a
\* time, in the order of the subject list and at most once per subject;
\* before the call for subject k + 1 exactly k pauses of 5 seconds have been
\* slept, one after each earlier call; the collected questions are in
\* subject order, each subject's questions being the ones it was asked for.
C11_SequentialPaced ==
  op = "generate_mock_test" =>
    /\ Len(requested) <= Len(subjects)
    /\ pc = "mock_loop" => Len(requested) = i
    /\ pc \in {"retry_call", "retry_sleep", "mock_sleep"} =>
         Len(requested) = i + 1
    /\ Len(requested) \in {i, i + 1}
    /\ mock_sleeps = i
    /\ mock_slept = MockPause * mock_sleeps
    /\ \A a \in 1..Len(all_questions) :
         /\ all_questions[a].topic \in 1..Len(requested)
         /\ \A b \in a..Len(all_questions) :
              all_questions[a].topic <= all_questions[b].topic
         /\ Cardinality({b \in 1..Len(all_questions) :
                           all_questions[b].topic = all_questions[a].topic})
              = requested[all_questions[a].topic]
    /\ (pc = "done" /\ In("questions", NeedleQuestions, result)) =>
         result = PyDict([questions |-> all_questions])

C11_Witness ==
  /\ op = "generate_mock_test"
  /\ pc = "done"
  /\ Len(requested) = 8
  /\ mock_slept = 8 * MockPause
  /\ Len(all_questions) > 1
  /\ all_questions[1].topic = 2
  /\ all_questions[Len(all_questions)].topic = 7


\* C12: in generate_mock_test every subject whose call has returned either
\* gave its questions or has its error in the error log; the loop is left
\* early only by a call that met the rate limit on all its retries; after
\* the last subject the result is the collected questions, or, when there
\* are none, the error listing the recorded errors of all 8 subjects.
C12_ErrorsLoggedAndTolerated ==
  /\ [](op = "generate_mock_test" =>
          /\ pc = "mock_sleep" =>
               \/ /\ all_questions # <<>>
                  /\ all_questions[Len(all_questions)].topic = i + 1
               \/ /\ errors # <<>>
                  /\ Len(errors[Len(errors)]) >= Len(subjects[i + 1])
                  /\ SubSeq(errors[Len(errors)], 1, Len(subjects[i + 1]))
                       = subjects[i + 1]
          /\ (pc = "done" /\ i = Len(subjects)) =>
               IF all_questions = <<>>
                 THEN /\ Len(errors) = Len(subjects)
                      /\ result = ErrorDict(MockFailedPrefix
                                              \o Join(NewLine, errors))
                 ELSE result = PyDict([questions |-> all_questions]))
  /\ [][(op = "generate_mock_test" /\ pc = "retry_call" /\ pc' = "done") =>
          hits = max_retries]_vars


\* C13 as stated: a file whose content hash equals the hash of its entry
\* is not sent to structure inference and its entry stays as it is; and a
\* scan that follows another scan with no file change in between makes no
\* inference call at all.
C13_SecondScanInfersNothing ==
  /\ [][\A f \in Filenames :
          (/\ lib_pc = "scan"
           /\ pos < Len(files)
           /\ pos' = pos + 1
           /\ files[pos + 1] = f
           /\ f \in DOMAIN index
           /\ index[f].hash = Hash(disk[f])) =>
            (analyzed' = analyzed /\ index' = index)]_vars
  /\ []((lib_pc \in {"scan", "done"} /\ prev_scan # "none") =>
          \A f \in Filenames : analyzed[f] = 0)

\* C13 amended: a file whose content hash equals the hash of its entry is
\* not sent to structure inference and its entry stays as it is; and a
\* scan that follows, with no file change in between, a scan that logged
\* no inference error makes no inference call at all.
C13_UnchangedFilesSkipped ==
  /\ [][\A f \in Filenames :
          (/\ lib_pc = "scan"
           /\ pos < Len(files)
           /\ pos' = pos + 1
           /\ files[pos + 1] = f
           /\ f \in DOMAIN index
           /\ index[f].hash = Hash(disk[f])) =>
            (analyzed' = analyzed /\ index' = index)]_vars
  /\ []((lib_pc \in {"scan", "done"} /\ prev_scan = "clean") =>
          \A f \in Filenames : analyzed[f] = 0)

C13_Witness ==
  /\ lib_pc = "done"
  /\ prev_scan = "clean"
  /\ DOMAIN index = {FileA, FileB}
  /\ index[FileA].hash = Hash(disk[FileA])
  /\ index[FileB].hash = Hash(disk[FileB])
  /\ \A f \in Filenames : analyzed[f] = 0


\* C14 as stated: whenever scan_library begins, every index entry whose
\* file is not in the library directory (the directory itself may be
\* gone) is deleted from the index and a log line reports it; until the
\* scan returns the log lines stay and the entry does not come back.
C14_MissingEntriesAlwaysRemoved ==
  /\ [][(LibIdle /\ lib_pc' \in {"scan", "done"}) =>
          \A f \in DOMAIN index :
            f \notin PdfNames(disk) =>
              (f \notin DOMAIN index' /\ RemovedLog(f) \in Range(logs'))]_vars
  /\ [][(lib_pc = "scan" /\ lib_pc' \in {"scan", "done"}) =>
          /\ Len(logs') >= Len(logs)
          /\ SubSeq(logs', 1, Len(logs)) = logs
          /\ DOMAIN index' \ DOMAIN index \subseteq PdfNames(disk)]_vars

\* C14 amended: whenever scan_library begins and finds the library
\* directory, every index entry whose file is not in it is deleted from
\* the index and a log line reports it; until the scan returns the log
\* lines stay and the entry does not come back.  A scan that finds no
\* library directory creates it and returns that one log line, with the
\* index as it was.
C14_MissingEntriesRemoved ==
  /\ [][(LibIdle /\ lib_pc' \in {"scan", "done"} /\ dir_exists) =>
          \A f \in DOMAIN index :
            f \notin PdfNames(disk) =>
              (f \notin DOMAIN index' /\ RemovedLog(f) \in Range(logs'))]_vars
  /\ [][(LibIdle /\ lib_pc' \in {"scan", "done"} /\ ~dir_exists) =>
          (index' = index /\ logs' = <<CreatedLog>> /\ lib_pc' = "done")]_vars
  /\ [][(lib_pc = "scan" /\ lib_pc' \in {"scan", "done"}) =>
          /\ Len(logs') >= Len(logs)
          /\ SubSeq(logs', 1, Len(logs)) = logs
          /\ DOMAIN index' \ DOMAIN index \subseteq PdfNames(disk)]_vars

C14_Witness ==
  /\ lib_pc = "done"
  /\ RemovedLog(FileA) \in Range(logs)
  /\ FileA \notin DOMAIN index
  /\ FileA \notin DOMAIN disk
  /\ FileB \in DOMAIN index


\* C15: a round of the file loop whose PDF has no index entry, or an entry
\* with another hash than the file's, calls analyze_structure once for it,
\* and when the answer is no error the entry then holds the file's hash,
\* the subject of the answer ("Unknown" when it names none), its chapters
\* and the file's path; no file is inferred twice in one scan, and when the
\* scan has returned every listed PDF was inferred or has a matching entry.
C15_ChangedFilesInferredOnce ==
  /\ [][\A f \in Filenames :
          (/\ lib_pc = "scan"
           /\ pos < Len(files)
           /\ pos' = pos + 1
           /\ files[pos + 1] = f
           /\ (f \notin DOMAIN index \/ index[f].hash # Hash(disk[f]))) =>
            /\ analyzed' = [analyzed EXCEPT ![f] = @ + 1]
            /\ "error" \notin DOMAIN structure'.val =>
                 /\ f \in DOMAIN index'
                 /\ index'[f] =
                      [hash |-> Hash(disk[f]),
                       subject |-> IF "subject" \in DOMAIN structure'.val
                                     THEN structure'.val.subject
                                     ELSE "Unknown",
                       chapters |-> structure'.val.chapters,
                       path |-> LIBRARY_DIR \o <<"/">> \o f]]_vars
  /\ [](\A f \in Filenames : analyzed[f] <= 1)
  /\ []((lib_pc = "done" /\ logs # <<CreatedLog>>) =>
          \A f \in {g \in DOMAIN disk : IsPdf(g)} :
            \/ analyzed[f] = 1
            \/ (f \in DOMAIN index /\ index[f].hash = Hash(disk[f])))

C15_Witness ==
  /\ lib_pc = "done"
  /\ analyzed[FileA] = 1
  /\ analyzed[FileB] = 1
  /\ FileA \in DOMAIN index
  /\ FileB \notin DOMAIN index
  /\ disk[FileA] = "v2"
  /\ index[FileA].hash = Hash("v2")
  /\ index[FileA].subject = "Geography"


\* C16: a round of the file loop in which analyze_structure answers with
\* an error appends the line reporting that error for the file to the logs
\* and changes neither the index (the file's earlier entry stays as it
\* was, a file without entry gets none) nor the index file.
C16_FailureLeavesEntry ==
  [][\A f \in Filenames :
       (/\ lib_pc = "scan"
        /\ pos < Len(files)
        /\ pos' = pos + 1
        /\ files[pos + 1] = f
        /\ analyzed'[f] = analyzed[f] + 1
        /\ "error" \in DOMAIN structure'.val) =>
         /\ index' = index
         /\ index_file' = index_file
         /\ Len(logs') = Len(logs) + 2
         /\ SubSeq(logs', 1, Len(logs)) = logs
         /\ logs'[Len(logs')] =
              ErrorLogPrefix \o f \o ColonSpace \o structure'.val.error]_vars

C16_Witness ==
  /\ lib_pc = "scan"
  /\ pos = 2
  /\ files = <<FileB, FileA>>
  /\ logs # <<>>
  /\ logs[Len(logs)] = ErrorLog(FileA, AnalyzeFailedText)
  /\ FileA \in DOMAIN index
  /\ index[FileA].hash = Hash("v1")
  /\ disk[FileA] = "v2"
  /\ FileB \notin DOMAIN index


\* C17: in every state each index entry holds the hash of the content
\* version whose inference succeeded last for its file, and its subject
\* and chapters are those of that inference: the chapters were read from
\* that same version.
C17_HashAndStructureAgree ==
  \A f \in DOMAIN index :
    /\ f \in DOMAIN inferred
    /\ index[f].hash = Hash(inferred[f].version)
    /\ index[f].chapters = inferred[f].structure.val.chapters
    /\ index[f].subject =
         (IF "subject" \in DOMAIN inferred[f].structure.val
            THEN inferred[f].structure.val.subject
            ELSE "Unknown")
    /\ \A k \in 1..Len(index[f].chapters) :
         index[f].hash = Hash(index[f].chapters[k].title)

C17_Witness ==
  /\ lib_pc = "done"
  /\ analyzed[FileA] = 1
  /\ FileA \in DOMAIN index
  /\ index[FileA].hash = Hash("v1")
  /\ index[FileA].chapters # <<>>
  /\ inferred[FileA].version = "v1"
  /\ disk[FileA] = "v2"


\* C18: what get_library_structure and get_chapter_content return is never
\* taken from an entry whose hash differs from the content hash of its file
\* in the library directory: every file listed with its chapters, and the
\* file whose chapter pages were read, has an entry with the file's hash.
C18_StaleEntriesNotServed ==
  /\ query.op = "get_library_structure" =>
       \A s \in DOMAIN query.out :
         \A k \in 1..Len(query.out[s]) :
           LET f == query.out[s][k].filename
           IN  f \in DOMAIN disk => index[f].hash = Hash(disk[f])
  /\ (query.op = "get_chapter_content" /\ query.out.type # "none") =>
       (query.filename \in DOMAIN disk =>
          index[query.filename].hash = Hash(disk[query.filename]))


\* C19: while scan_library runs and when it has returned, the index file
\* holds exactly the in-memory index: every deletion, insertion and update
\* of an entry was written to the file before the scan went on.
C19_EagerPersistence ==
  lib_pc \in {"scan", "done"} =>
    /\ index_file.files = index
    /\ index # EmptyDict => index_file.exists

C21_ChapterPageRange ==
  (/\ query.op = "get_chapter_content"
   /\ query.filename \in DOMAIN index
   /\ query.filename \in DOMAIN disk
   /\ query.chapter_index \in 1..Len(index[query.filename].chapters)) =>
    LET c == index[query.filename].chapters[query.chapter_index]
        v == disk[query.filename]
        first == c.page_start.val
        last == IF c.page_end.val < first THEN first + 10 ELSE c.page_end.val
        upto == IF last < TotalPages(v) THEN last ELSE TotalPages(v)
    IN  /\ query.out.type = "str"
        /\ query.out.val =
             [k \in 1..(upto - first + 1) |-> PageTexts[v][first + k - 1]]


\* C22: a library file that cannot be read or parsed does not make
\* scan_library raise; when the scan has returned the index file holds the
\* index and every other listed PDF was inferred or has a matching entry;
\* and no index entry comes from the text of a failed extraction.
C22_BadFileTolerated ==
  /\ lib_pc # "raised"
  /\ (lib_pc = "done" /\ logs # <<CreatedLog>>) =>
       /\ index_file.files = index
       /\ \A f \in PdfNames(disk) :
            \/ disk[f] \in FaultyContents
            \/ analyzed[f] = 1
            \/ (f \in DOMAIN index /\ index[f].hash = Hash(disk[f]))
  /\ \A f \in DOMAIN index : inferred[f].version \notin FaultyContents

\* C23: the history is a newest-first log that only grows: a save_quiz that
\* returns leaves a file from which load_history gives the new record
\* followed by exactly what it gave before, and no operation of
\* QuizHistory changes or drops a record load_history gave before it.
C23_AppendOnlyNewestFirst ==
  [][LET before == load_history(history_file)
         after == load_history(history_file')
     IN  /\ before.type = "list"
         /\ after.type = "list"
         /\ Len(after.val) >= Len(before.val)
         /\ SubSeq(after.val, Len(after.val) - Len(before.val) + 1,
                   Len(after.val)) = before.val
         /\ (hist_out'.op = "save_quiz" /\ hist_out' # hist_out) =>
              /\ hist_out'.out.type = "str"
              /\ Len(after.val) = Len(before.val) + 1
              /\ after.val[1].id = hist_out'.out.val
              /\ Tail(after.val) = before.val]_vars

C23_Witness ==
  /\ hist_out.op = "save_quiz"
  /\ hist_out.out.type = "str"
  /\ Len(history_file.records) = 3
  /\ history_file.records[1].id = hist_out.out.val
  /\ history_file.records[1].topic # history_file.records[2].topic

\* C24: what save_quiz was given comes back: right after a save the first
\* record of load_history has the returned id and the topic, score,
\* maximum and questions passed; get_quiz of every id a save returned gives
\* the record of that save, whatever was saved later; the ids in the file
\* differ pairwise, every save returned an id of its own, and get_quiz of
\* an id no save returned gives None.
C24_RoundTrip ==
  LET history == load_history(history_file)
  IN  /\ history.type = "list"
      /\ (hist_out.op = "save_quiz") =>
           /\ hist_out.out.type = "str"
           /\ history.val # <<>>
           /\ history.val[1].id = hist_out.out.val
           /\ history.val[1].topic = hist_out.topic
           /\ history.val[1].score = hist_out.score
           /\ history.val[1].max_score = hist_out.max_score
           /\ history.val[1].questions = hist_out.questions
      /\ \A id \in QuizIds :
           get_quiz(history_file, id) =
             IF id \in DOMAIN saved THEN PyDict(saved[id]) ELSE PyNone
      /\ \A j, k \in 1..Len(history.val) :
           j # k => history.val[j].id # history.val[k].id
      /\ Cardinality(DOMAIN saved) = uuid_count
      /\ hist_out.op = "get_quiz" =>
           hist_out.out = get_quiz(history_file, hist_out.quiz_id)

C24_Witness ==
  /\ hist_out.op = "get_quiz"
  /\ hist_out.out.type = "dict"
  /\ Len(history_file.records) = 3
  /\ hist_out.out.val = history_file.records[3]
  /\ hist_out.out.val = saved[hist_out.quiz_id]

\* C25: while the history file is missing or holds no valid JSON,
\* load_history returns the empty list and get_quiz returns None for every
\* id, neither raising.
C25_DamagedFileTolerated ==
  history_file.state # "json" =>
    /\ load_history(history_file) = PyList(<<>>)
    /\ \A id \in QuizIds : get_quiz(history_file, id) = PyNone
    /\ hist_out.op = "load_history" => hist_out.out = PyList(<<>>)
    /\ hist_out.op = "get_quiz" => hist_out.out = PyNone

\* C26: two save_quiz calls that both loaded the history before either
\* wrote it back both return their id, and afterwards the file holds the
\* record of exactly one of them, that of the call that wrote last, on top
\* of what both had loaded.
C26_LastWriterWins ==
  \A p, q \in Sessions :
    (/\ p # q
     /\ saving[p].pc = "returned"
     /\ saving[q].pc = "returned"
     /\ saving[p].loaded = saving[q].loaded) =>
      LET ids == {history_file.records[k].id :
                    k \in 1..Len(history_file.records)}
      IN  /\ saving[p].out = PyStr(saving[p].entry.id)
          /\ saving[q].out = PyStr(saving[q].entry.id)
          /\ (saving[p].entry.id \in ids) # (saving[q].entry.id \in ids)
          /\ Len(history_file.records) = Len(saving[p].loaded) + 1
          /\ Tail(history_file.records) = saving[p].loaded

C26_Witness ==
  /\ saving["s1"].pc = "returned"
  /\ saving["s2"].pc = "returned"
  /\ saving["s1"].loaded = saving["s2"].loaded
  /\ history_file.records[1] = saving["s1"].entry
  /\ saving["s2"].entry.id \in DOMAIN saved
  /\ \A k \in 1..Len(history_file.records) :
       history_file.records[k].id # saving["s2"].entry.id

\* C27: every question of a result of generate_questions that is no error
\* has a correct_option that is one of the keys of its options.
C27_CorrectOptionIsAKey ==
  (/\ op = "generate_questions"
   /\ pc = "done"
   /\ result.type = "dict"
   /\ "questions" \in DOMAIN result.val) =>
    \A k \in 1..Len(result.val.questions) :
      result.val.questions[k].correct_option
        \in result.val.questions[k].options

\* C28: while quiz_submitted is set, the stored user_answers are the
\* choices submitted for the questions now in quiz_data, and the results
\* rendered are computed from those questions and those answers.
C28_AnswersBelongToQuiz ==
  quiz_submitted =>
    /\ answered = quiz_data
    /\ DOMAIN user_answers = 0..(Len(quiz_data) - 1)
    /\ shown = ResultsView(TRUE, answered, user_answers)

\* C29: a submission saves one attempt: the history grows by one record,
\* whose score is the score the results view renders for the same
\* questions and answers, 2 marks for each correct answer less 0.66 for
\* each other choice made; its maximum is 2 marks per question and the
\* score does not exceed it.
C29_OneAttemptWithShownScore ==
  [][attempts' # attempts =>
       LET before == load_history(history_file).val
           after == load_history(history_file').val
           n == Len(quiz_data')
           right == {k \in 1..n :
                       user_answers'[k - 1] = quiz_data'[k].correct_option}
           wrong == {k \in 1..n :
                       /\ user_answers'[k - 1] # quiz_data'[k].correct_option
                       /\ user_answers'[k - 1] # NoChoice}
       IN  /\ Len(attempts') = Len(attempts) + 1
           /\ Len(after) = Len(before) + 1
           /\ Tail(after) = before
           /\ after[1].questions = quiz_data'
           /\ after[1].score = shown'.score
           /\ after[1].max_score = shown'.max_score
           /\ shown'.quiz = quiz_data'
           /\ shown'.answers = user_answers'
           /\ after[1].score =
                MarkCorrect * Cardinality(right) - MarkWrong * Cardinality(wrong)
           /\ after[1].max_score = 2 * n
           /\ after[1].score <= after[1].max_score * 100]_vars

C29_Witness ==
  /\ quiz_submitted
  /\ Len(attempts) = 2
  /\ Len(quiz_data) = 2
  /\ user_answers = (0 :> "A" @@ 1 :> "B")
  /\ history_file.records[1].score = MarkCorrect - MarkWrong
  /\ shown.score = MarkCorrect - MarkWrong

\* C30: analyze_structure calls the service at most 9 times and ends with
\* a mapping; an attempt is followed by a sleep and another attempt with
\* the same model only when the service raised an error carrying 429, so
\* that any other error and any parse failure is followed by the next
\* model; and a call that has begun returns.
C30_AnalyzeBoundedRetries ==
  /\ [](op = "analyze_structure" =>
          /\ calls <= Len(models_to_try(model_name)) * AnalyzeAttempts
          /\ pc = "done" => result.type = "dict")
  /\ [][(op = "analyze_structure" /\ pc = "analyze_call"
          /\ pc' = "analyze_sleep") =>
           (svc_out'.kind = "raise" /\ Contains(Needle429, svc_out'.msg))]_vars
  /\ ((op = "analyze_structure" /\ pc # "done") ~> pc = "done")

============================================================================
